---- MODULE Spec2Model ----
(***************************************************************************)
(* Event access management: quota / capacity enforcement and check-in.     *)
(* The persistent store (server/storage.ts, shared/schema.ts) is the state;*)
(* every route handler of server/routes.ts is a sequence of steps, one per *)
(* awaited storage call, so that concurrent requests interleave at the     *)
(* points where the Node event loop may switch between them.               *)
(***************************************************************************)
EXTENDS Integers, Sequences, FiniteSets, TLC

\* ------------------------------------------------------------------ bounds
NumProcs == 2       \* requests that may be in flight at the same time
MaxRequests == 4    \* check-in requests started in one behaviour
MaxCreates == 4     \* event requests started in one behaviour
MaxUpdates == 2     \* tier-quota updates started in one behaviour
MaxSerial == 4      \* requests started in one behaviour of a single connection
NumCreators == 3    \* event-creation requests that may be in flight at the same time
InitQuota == 1      \* largest quota a manager starts with
MaxByte == 3        \* largest value of one random byte (255 in the program)
MaxGuestRequests == 3   \* guest requests started in one behaviour
MaxImports == 3     \* guest requests started in one behaviour of a single connection
MaxRows == 3        \* most rows of an uploaded file
MaxCodeRequests == 3    \* guest requests started in one behaviour on access codes
MaxDesk == 3        \* door and desk requests started in one behaviour of a single connection
MaxSummary == 5     \* quota, event and summary requests started in one behaviour of a single connection
MaxTierRequests == 2    \* tier requests started in one behaviour of a single connection
MaxUserRequests == 2    \* user creations started in one behaviour of a single connection
MaxListRequests == 3    \* guest-list and organizer requests started in one behaviour of a single connection
MaxRaceRequests == 2    \* check-in and deletion requests started in one behaviour of overlapping connections
MaxMoves == 3       \* event creations and updates started in one behaviour of a single connection

None == "none"      \* undefined / null, where the value is a string
NoId == 0           \* undefined / null, where the value is a generated key
Null == -1          \* null, where the value is a number or a date

VARIABLES
    users,            \* table users:            id -> [role, name, createdById]
    capacityTiers,    \* table capacity_tiers:   id -> [isActive, isUnlimited, minGuests, maxGuests]
    userTierQuotas,   \* table user_tier_quotas: sequence of rows [userId, capacityTierId, quota]
    events,           \* table events:           id -> [eventManagerId, capacityTierId, isActive]
    eventOrganizers,  \* table event_organizers: set of rows [eventId, organizerId]
    guests,           \* table guests:           id -> [eventId, name, qrCode, isCheckedIn, checkedInAt, checkedInBy]
    auditLogs,        \* table audit_logs:       sequence of rows [action, userId, eventId, guestId]
    nextId,           \* [event, guest]: the next generated primary key of each table
    clock,            \* the value the next new Date() returns
    req,              \* per process: the request being served, its locals and its response
    nreq              \* requests the clients may still start

vars == <<users, capacityTiers, userTierQuotas, events, eventOrganizers, guests,
          auditLogs, nextId, clock, req, nreq>>

\* ------------------------------------------------------- schema and helpers
Procs == DOMAIN req   \* the connections of a behaviour, fixed by its initial state
Idle == [op |-> "idle", pc |-> "idle"]

\* res.status(s).json(body): the handler is over, the response waits for its client
Respond(r, s, body) == [r EXCEPT !.pc = "done"] @@ [status |-> s, body |-> body]

CanStart(p) == req[p].pc = "idle" /\ nreq > 0

\* requireRole(...roles): the session's user exists and has one of the roles
requireRole(userId, roles) == userId \in DOMAIN users /\ users[userId].role \in roles

canBypassOwnership(userRole) == userRole = "admin" \/ userRole = "super_admin"

\* storage.getOrganizerEvents: the assigned events that still exist and are active
getOrganizerEvents(organizerId) ==
    {a.eventId : a \in {x \in eventOrganizers : x.organizerId = organizerId}}
        \cap {e \in DOMAIN events : events[e].isActive}

\* a row of guests as createGuest inserts it: the check-in columns at their defaults
NewGuest(eventId, qrCode) ==
    [eventId |-> eventId, name |-> "guest", qrCode |-> qrCode, isCheckedIn |-> FALSE,
     checkedInAt |-> Null, checkedInBy |-> None]

\* an audit table that keeps only its latest row
createAuditLogOverwrite(action, userId, eventId, guestId) ==
    <<[action |-> action, userId |-> userId, eventId |-> eventId, guestId |-> guestId]>>

\* storage.createAuditLog
createAuditLog(action, userId, eventId, guestId) ==
    Append(auditLogs, [action |-> action, userId |-> userId,
                       eventId |-> eventId, guestId |-> guestId])

\* ------------------------------------------------------------ access codes
\* the alphabet of generateAccessCode, cut down from 32 characters
chars == <<"A", "B", "C">>
\* characters per group (4 in the program: XXXX-XXXX-XXXX)
GroupLen == 1
CodeLen == 3 * GroupLen
ByteVals == 0..MaxByte

\* generateAccessCode on the bytes randomBytes returned
generateAccessCode(bytes) ==
    LET code == [i \in 1..CodeLen |-> chars[(bytes[i] % Len(chars)) + 1]]
    IN  SubSeq(code, 1, GroupLen) \o <<"-">> \o
        SubSeq(code, GroupLen + 1, 2 * GroupLen) \o <<"-">> \o
        SubSeq(code, 2 * GroupLen + 1, 3 * GroupLen)

AccessCodes == {generateAccessCode(b) : b \in [1..CodeLen -> ByteVals]}

\* String.prototype.toUpperCase on the characters a code may be typed with
toUpperChar(c) ==
    CASE c = "a" -> "A" [] c = "b" -> "B" [] c = "c" -> "C" [] OTHER -> c
toUpperCase(s) == [i \in DOMAIN s |-> toUpperChar(s[i])]

\* a lookup that compares only the length of the code
getGuestByQrCodeLoose(qrCode) ==
    LET hit == {g \in DOMAIN guests : Len(guests[g].qrCode) = Len(qrCode)}
    IN  IF hit = {} THEN NoId ELSE CHOOSE g \in hit : TRUE

\* storage.getGuestByQrCode: the unique column makes the match at most one row
getGuestByQrCode(qrCode) ==
    LET hit == {g \in DOMAIN guests : guests[g].qrCode = qrCode}
    IN  IF hit = {} THEN NoId ELSE CHOOSE g \in hit : TRUE

\* ------------------------------------------------------------------ check-in
\* the access test shared by both check-in routes
CheckInAccessOk(user, eventId) ==
    IF users[user].role = "organizer"
    THEN eventId \in getOrganizerEvents(user)
    ELSE IF users[user].role = "event_manager"
         THEN eventId \in DOMAIN events /\ events[eventId].eventManagerId = user
         ELSE TRUE

\* a check-in write that sets the flag and leaves the time and the user unset
checkInGuestFlagOnly(id, organizerId) ==
    IF id \in DOMAIN guests
    THEN [guests EXCEPT ![id] = [@ EXCEPT !.isCheckedIn = TRUE]]
    ELSE guests

\* storage.checkInGuest: UPDATE guests SET ... WHERE id = ?
checkInGuest(id, organizerId) ==
    IF id \in DOMAIN guests
    THEN [guests EXCEPT ![id] = [@ EXCEPT !.isCheckedIn = TRUE,
                                          !.checkedInAt = clock,
                                          !.checkedInBy = organizerId]]
    ELSE guests

UserName(id) == IF id \in DOMAIN users THEN users[id].name ELSE "unknown"

CheckInUsers == {"m1", "o1", "o2"}
GuestIdInputs == {1, 9}
CodeInputs == {<<"A", "-", "B", "-", "C">>, <<"a", "-", "b", "-", "c">>,
               <<"C", "-", "C", "-", "C">>, <<>>}
EventHints == {NoId, 1, 2}

\* POST /api/guests/:id/check-in, up to the first await
CheckInById_Start(p) ==
    /\ CanStart(p)
    /\ \E u \in CheckInUsers, id \in GuestIdInputs :
         LET r == [op |-> "checkIn", pc |-> "getGuest", user |-> u,
                   by |-> "id", id |-> id, code |-> <<>>,
                   eventId |-> NoId, guestId |-> NoId]
         IN  req' = [req EXCEPT ![p] =
                       IF ~requireRole(u, {"organizer", "event_manager", "admin", "super_admin"})
                       THEN Respond(r, 403, [status |-> "error"])
                       ELSE r]
    /\ nreq' = nreq - 1
    /\ UNCHANGED <<users, capacityTiers, userTierQuotas, events, eventOrganizers,
                   guests, auditLogs, nextId, clock>>

\* POST /api/check-in/code, up to the first await
CheckInByCode_Start(p) ==
    /\ CanStart(p)
    /\ \E u \in CheckInUsers, code \in CodeInputs, hint \in EventHints :
         LET r == [op |-> "checkIn", pc |-> "getGuest", user |-> u,
                   by |-> "code", id |-> NoId, code |-> code,
                   eventId |-> hint, guestId |-> NoId]
         IN  req' = [req EXCEPT ![p] =
                       IF ~requireRole(u, {"organizer", "event_manager", "admin", "super_admin"})
                       THEN Respond(r, 403, [status |-> "error"])
                       ELSE IF code = <<>>
                       THEN Respond(r, 400, [status |-> "invalid"])
                       ELSE r]
    /\ nreq' = nreq - 1
    /\ UNCHANGED <<users, capacityTiers, userTierQuotas, events, eventOrganizers,
                   guests, auditLogs, nextId, clock>>

\* storage.getGuest / storage.getGuestByQrCode and the not-found and event-hint tests
CheckIn_GetGuest(p) ==
    LET r == req[p]
        gid == IF r.by = "id"
               THEN (IF r.id \in DOMAIN guests THEN r.id ELSE NoId)
               ELSE getGuestByQrCode(toUpperCase(r.code))
    IN
    /\ r.op = "checkIn" /\ r.pc = "getGuest"
    /\ req' = [req EXCEPT ![p] =
                 IF gid = NoId
                 THEN Respond(r, 404, [status |-> "invalid"])
                 ELSE IF r.by = "code" /\ r.eventId # NoId /\ guests[gid].eventId # r.eventId
                 THEN Respond(r, 400, [status |-> "invalid"])
                 ELSE [r EXCEPT !.pc = "access", !.guestId = gid] @@ [guest |-> guests[gid]]]
    /\ UNCHANGED <<users, capacityTiers, userTierQuotas, events, eventOrganizers,
                   guests, auditLogs, nextId, clock, nreq>>

\* the access test, then the isCheckedIn test on the guest row read before
CheckIn_Access(p) ==
    LET r == req[p] IN
    /\ r.op = "checkIn" /\ r.pc = "access"
    /\ req' = [req EXCEPT ![p] =
                 IF ~CheckInAccessOk(r.user, r.guest.eventId)
                 THEN Respond(r, 403, [status |-> "error"])
                 ELSE IF r.guest.isCheckedIn
                 THEN [r EXCEPT !.pc = "duplicate"]
                 ELSE [r EXCEPT !.pc = "checkInGuest"]]
    /\ UNCHANGED <<users, capacityTiers, userTierQuotas, events, eventOrganizers,
                   guests, auditLogs, nextId, clock, nreq>>

\* the duplicate branch: storage.getUser(guest.checkedInBy), then the response
CheckIn_Duplicate(p) ==
    LET r == req[p] IN
    /\ r.op = "checkIn" /\ r.pc = "duplicate"
    /\ req' = [req EXCEPT ![p] =
                 Respond(r, 200, [status |-> "duplicate", guestId |-> r.guestId,
                                  checkedInAt |-> r.guest.checkedInAt,
                                  checkedInBy |-> IF r.guest.checkedInBy = None
                                                  THEN "unknown"
                                                  ELSE UserName(r.guest.checkedInBy)])]
    /\ UNCHANGED <<users, capacityTiers, userTierQuotas, events, eventOrganizers,
                   guests, auditLogs, nextId, clock, nreq>>

\* the success branch: storage.checkInGuest
CheckIn_Write(p) ==
    LET r == req[p] IN
    /\ r.op = "checkIn" /\ r.pc = "checkInGuest"
    /\ guests' = checkInGuest(r.guestId, r.user)
    /\ clock' = clock + 1
    /\ req' = [req EXCEPT ![p] =
                 [r EXCEPT !.pc = "audit"] @@
                 [updatedGuest |-> IF r.guestId \in DOMAIN guests
                                   THEN guests'[r.guestId] ELSE NewGuest(NoId, <<>>)]]
    /\ UNCHANGED <<users, capacityTiers, userTierQuotas, events, eventOrganizers,
                   auditLogs, nextId, nreq>>

\* the success branch: storage.createAuditLog, then the response
CheckIn_Audit(p) ==
    LET r == req[p] IN
    /\ r.op = "checkIn" /\ r.pc = "audit"
    /\ auditLogs' = createAuditLog("check_in", r.user, r.guest.eventId, r.guestId)
    /\ req' = [req EXCEPT ![p] = Respond(r, 200, [status |-> "success",
                                                  guestId |-> r.guestId,
                                                  guest |-> r.updatedGuest])]
    /\ UNCHANGED <<users, capacityTiers, userTierQuotas, events, eventOrganizers,
                   guests, nextId, clock, nreq>>

\* the client has read the response: the connection serves its next request
Reply(p) ==
    /\ req[p].pc = "done"
    /\ req' = [req EXCEPT ![p] = Idle]
    /\ UNCHANGED <<users, capacityTiers, userTierQuotas, events, eventOrganizers,
                   guests, auditLogs, nextId, clock, nreq>>

\* ------------------------------------------------------------ initial states
InitUsers ==
    [u \in {"sa", "m1", "m2", "o1", "o2"} |->
        [role |-> CASE u = "sa" -> "super_admin"
                    [] u \in {"m1", "m2"} -> "event_manager"
                    [] OTHER -> "organizer",
         name |-> CASE u = "sa" -> "Owner" [] u = "m1" -> "Manager One"
                    [] u = "m2" -> "Manager Two" [] u = "o1" -> "Organizer One"
                    [] OTHER -> "Organizer Two",
         createdById |-> CASE u = "sa" -> None [] u \in {"m1", "m2"} -> "sa"
                           [] u = "o1" -> "m1" [] OTHER -> "m2",
         username |-> u]]

InitTiers ==
    [t \in {"t1", "t2", "t3"} |->
        [isActive |-> t # "t3", isUnlimited |-> t = "t2", minGuests |-> 0,
         maxGuests |-> IF t = "t2" THEN Null ELSE 2]]

\* one event of manager m1 with organizer o1 and one pending guest
InitCheckIn ==
    /\ users = InitUsers
    /\ capacityTiers = InitTiers
    /\ userTierQuotas = <<>>
    /\ events = [e \in {1, 2} |->
                   [eventManagerId |-> IF e = 1 THEN "m1" ELSE "m2",
                    capacityTierId |-> "t2", isActive |-> TRUE]]
    /\ eventOrganizers = {[eventId |-> 1, organizerId |-> "o1"]}
    /\ guests = (1 :> NewGuest(1, <<"A", "-", "B", "-", "C">>))
    /\ auditLogs = <<>>
    /\ nextId = [event |-> 3, guest |-> 2]
    /\ clock = 1
    /\ req = [p \in 1..NumProcs |-> Idle]
    /\ nreq = MaxRequests

NextCheckIn ==
    \E p \in 1..NumProcs :
        \/ CheckInById_Start(p)
        \/ CheckInByCode_Start(p)
        \/ CheckIn_GetGuest(p)
        \/ CheckIn_Access(p)
        \/ CheckIn_Duplicate(p)
        \/ CheckIn_Write(p)
        \/ CheckIn_Audit(p)
        \/ Reply(p)

SpecCheckIn == InitCheckIn /\ [][NextCheckIn]_vars

\* ------------------------------------------------------ claims on check-in
\* a finished check-in request of process p for guest g with the given outcome
CheckInResult(p, g, outcome) ==
    /\ req[p].op = "checkIn" /\ req[p].pc = "done"
    /\ req[p].status = 200 /\ req[p].body.status = outcome
    /\ req[p].body.guestId = g

CheckInEntries(g) ==
    {i \in DOMAIN auditLogs : auditLogs[i].action = "check_in" /\ auditLogs[i].guestId = g}

\* C1: of the check-in requests that ran concurrently for one pending guest,
\* exactly one answers success and the others duplicate: no two requests
\* both hold a success response for the same guest.
C1_ExactlyOneSuccess ==
    \A g \in DOMAIN guests :
        Cardinality({p \in Procs : CheckInResult(p, g, "success")}) <= 1

\* C2: the check-in write is applied at most once per guest: once a guest is
\* checked in, no step changes its checkedInAt or checkedInBy.
C2_WriteAtMostOnce ==
    [][\A g \in DOMAIN guests :
          (guests[g].isCheckedIn /\ g \in DOMAIN guests')
              => /\ guests'[g].checkedInAt = guests[g].checkedInAt
                 /\ guests'[g].checkedInBy = guests[g].checkedInBy]_vars

\* C3: every check-in call on an already checked-in guest answers duplicate with
\* the checkedInAt and checkedInBy of the original check-in, so any two duplicate
\* answers for one guest carry the same values; and the duplicate branch
\* changes neither the guest table nor the audit log.
C3_DuplicateIdempotent ==
    /\ [](\A p, q \in Procs, g \in DOMAIN guests :
            (CheckInResult(p, g, "duplicate") /\ CheckInResult(q, g, "duplicate"))
                => /\ req[p].body.checkedInAt = req[q].body.checkedInAt
                   /\ req[p].body.checkedInBy = req[q].body.checkedInBy)
    /\ [][\A p \in Procs :
            (req[p].op = "checkIn" /\ req[p].pc = "duplicate" /\ req'[p].pc = "done")
                => (guests' = guests /\ auditLogs' = auditLogs)]_vars

\* C4: the audit log holds at most one check_in entry per guest.
C4_OneAuditEntryPerGuest ==
    \A g \in DOMAIN guests : Cardinality(CheckInEntries(g)) <= 1

\* -------------------------------------------------------------------- events
\* storage.getUserTierQuotas, then userTierQuotas.find(...)?.quota || 0
QuotaOf(userId, capacityTierId) ==
    LET rows == SelectSeq(userTierQuotas, LAMBDA q : q.userId = userId)
        hits == SelectSeq(rows, LAMBDA q : q.capacityTierId = capacityTierId)
    IN  IF hits = <<>> THEN 0 ELSE hits[1].quota

\* a count that forgets the manager: every event of the tier
getEventCountByTier(managerId, capacityTierId) ==
    Cardinality({e \in DOMAIN events : events[e].capacityTierId = capacityTierId})

\* a stored counter: every event the manager ever created, deleted ones included
getEventCountEverCreated(managerId, capacityTierId) ==
    Cardinality({i \in DOMAIN auditLogs : /\ auditLogs[i].action = "create_event"
                                          /\ auditLogs[i].userId = managerId})

\* storage.getEventCountByManagerAndTier
getEventCountByManagerAndTier(managerId, capacityTierId) ==
    Cardinality({e \in DOMAIN events : /\ events[e].eventManagerId = managerId
                                       /\ events[e].capacityTierId = capacityTierId})

\* a quota test that lets one creation too many through
QuotaExhaustedLate(tierEventCount, quota) == tierEventCount > quota

\* the test that rejects a creation once the tier's quota is used up
QuotaExhausted(tierEventCount, quota) == tierEventCount >= quota

EventUsers == {"m1", "sa"}
TierInputs == {None, "t1", "t3"}

\* POST /api/events, up to the first await
CreateEvent_Start(p, Users, Tiers, Valids) ==
    /\ CanStart(p)
    /\ \E u \in Users, t \in Tiers, valid \in Valids :
         LET r == [op |-> "createEvent", pc |-> "getTier", user |-> u,
                   capacityTierId |-> t, valid |-> valid, quota |-> 0, eventId |-> NoId]
         IN  req' = [req EXCEPT ![p] =
                       IF users[u].role = "event_manager" /\ t = None
                       THEN Respond(r, 400, [error |-> "no_tier_selected"])
                       ELSE IF t # None THEN r
                       ELSE IF ~valid THEN Respond(r, 400, [error |-> "validation"])
                       ELSE [r EXCEPT !.pc = "createEvent"]]
    /\ nreq' = nreq - 1
    /\ UNCHANGED <<users, capacityTiers, userTierQuotas, events, eventOrganizers,
                   guests, auditLogs, nextId, clock>>

\* storage.getCapacityTier and the tier test
CreateEvent_GetTier(p) ==
    LET r == req[p] IN
    /\ r.op = "createEvent" /\ r.pc = "getTier"
    /\ req' = [req EXCEPT ![p] =
                 IF r.capacityTierId \notin DOMAIN capacityTiers
                 THEN Respond(r, 400, [error |-> "tier_invalid"])
                 ELSE IF ~capacityTiers[r.capacityTierId].isActive
                 THEN Respond(r, 400, [error |-> "tier_invalid"])
                 ELSE IF users[r.user].role = "event_manager"
                 THEN [r EXCEPT !.pc = "getQuotas"]
                 ELSE IF ~r.valid THEN Respond(r, 400, [error |-> "validation"])
                 ELSE [r EXCEPT !.pc = "createEvent"]]
    /\ UNCHANGED <<users, capacityTiers, userTierQuotas, events, eventOrganizers,
                   guests, auditLogs, nextId, clock, nreq>>

\* storage.getUserTierQuotas and the quota === 0 test
CreateEvent_GetQuotas(p) ==
    LET r == req[p]
        quota == QuotaOf(r.user, r.capacityTierId)
    IN
    /\ r.op = "createEvent" /\ r.pc = "getQuotas"
    /\ req' = [req EXCEPT ![p] =
                 IF quota = 0
                 THEN Respond(r, 403, [error |-> "tier_permission_denied"])
                 ELSE [r EXCEPT !.pc = "count", !.quota = quota]]
    /\ UNCHANGED <<users, capacityTiers, userTierQuotas, events, eventOrganizers,
                   guests, auditLogs, nextId, clock, nreq>>

\* storage.getEventCountByManagerAndTier, the quota test and the required fields
CreateEvent_Count(p) ==
    LET r == req[p]
        tierEventCount == getEventCountByManagerAndTier(r.user, r.capacityTierId)
    IN
    /\ r.op = "createEvent" /\ r.pc = "count"
    /\ req' = [req EXCEPT ![p] =
                 IF QuotaExhausted(tierEventCount, r.quota)
                 THEN Respond(r, 403, [error |-> "tier_quota_exhausted"])
                 ELSE IF ~r.valid THEN Respond(r, 400, [error |-> "validation"])
                 ELSE [r EXCEPT !.pc = "createEvent"]]
    /\ UNCHANGED <<users, capacityTiers, userTierQuotas, events, eventOrganizers,
                   guests, auditLogs, nextId, clock, nreq>>

\* storage.createEvent
CreateEvent_Insert(p) ==
    LET r == req[p] IN
    /\ r.op = "createEvent" /\ r.pc = "createEvent"
    /\ events' = events @@ (nextId.event :> [eventManagerId |-> r.user,
                                             capacityTierId |-> r.capacityTierId,
                                             isActive |-> TRUE])
    /\ nextId' = [nextId EXCEPT !.event = @ + 1]
    /\ req' = [req EXCEPT ![p] = [r EXCEPT !.pc = "audit", !.eventId = nextId.event]]
    /\ UNCHANGED <<users, capacityTiers, userTierQuotas, eventOrganizers, guests,
                   auditLogs, clock, nreq>>

\* storage.createAuditLog, then the response
CreateEvent_Audit(p) ==
    LET r == req[p] IN
    /\ r.op = "createEvent" /\ r.pc = "audit"
    /\ auditLogs' = createAuditLog("create_event", r.user, r.eventId, NoId)
    /\ req' = [req EXCEPT ![p] = Respond(r, 200, [eventId |-> r.eventId])]
    /\ UNCHANGED <<users, capacityTiers, userTierQuotas, events, eventOrganizers,
                   guests, nextId, clock, nreq>>

\* DELETE /api/events/:id, up to the first await
DeleteEvent_Start(p, Users) ==
    /\ CanStart(p)
    /\ \E u \in Users, id \in DOMAIN events \cup {NoId} :
         req' = [req EXCEPT ![p] = [op |-> "deleteEvent", pc |-> "getEvent",
                                    user |-> u, id |-> id]]
    /\ nreq' = nreq - 1
    /\ UNCHANGED <<users, capacityTiers, userTierQuotas, events, eventOrganizers,
                   guests, auditLogs, nextId, clock>>

\* storage.getEvent and the ownership test
DeleteEvent_GetEvent(p) ==
    LET r == req[p] IN
    /\ r.op = "deleteEvent" /\ r.pc = "getEvent"
    /\ req' = [req EXCEPT ![p] =
                 IF r.id \notin DOMAIN events
                 THEN Respond(r, 404, [error |-> "not_found"])
                 ELSE IF ~canBypassOwnership(users[r.user].role)
                         /\ events[r.id].eventManagerId # r.user
                 THEN Respond(r, 403, [error |-> "forbidden"])
                 ELSE [r EXCEPT !.pc = "deleteEvent"]]
    /\ UNCHANGED <<users, capacityTiers, userTierQuotas, events, eventOrganizers,
                   guests, auditLogs, nextId, clock, nreq>>

\* storage.deleteEvent, then the response
DeleteEvent_Delete(p) ==
    LET r == req[p] IN
    /\ r.op = "deleteEvent" /\ r.pc = "deleteEvent"
    /\ events' = [e \in DOMAIN events \ {r.id} |-> events[e]]
    /\ req' = [req EXCEPT ![p] = Respond(r, 200, [success |-> TRUE])]
    /\ UNCHANGED <<users, capacityTiers, userTierQuotas, eventOrganizers, guests,
                   auditLogs, nextId, clock, nreq>>

\* a row of user_tier_quotas
QuotaRow(userId, capacityTierId, quota) ==
    [userId |-> userId, capacityTierId |-> capacityTierId, quota |-> quota]

\* manager m1 with some quota on tier t1, quota 1 on tier t2, and no event yet;
\* the requests are those of m1 for tier t1, with a name and a date
InitEvents ==
    /\ users = InitUsers
    /\ capacityTiers = InitTiers
    /\ \E q \in 0..InitQuota :
         userTierQuotas = <<QuotaRow("m1", "t1", q), QuotaRow("m1", "t2", 1)>>
    /\ events = <<>>
    /\ eventOrganizers = {}
    /\ guests = <<>>
    /\ auditLogs = <<>>
    /\ nextId = [event |-> 1, guest |-> 1]
    /\ clock = 1
    /\ req = [p \in 1..NumCreators |-> Idle]
    /\ nreq = MaxCreates

NextEvents ==
    \E p \in 1..NumCreators :
        \/ CreateEvent_Start(p, {"m1"}, {"t1"}, {TRUE})
        \/ CreateEvent_GetTier(p)
        \/ CreateEvent_GetQuotas(p)
        \/ CreateEvent_Count(p)
        \/ CreateEvent_Insert(p)
        \/ CreateEvent_Audit(p)
        \/ DeleteEvent_Start(p, {"m1"})
        \/ DeleteEvent_GetEvent(p)
        \/ DeleteEvent_Delete(p)
        \/ Reply(p)

SpecEvents == InitEvents /\ [][NextEvents]_vars

\* ---------------------------------------------------------------- tier quotas
\* the largest quota tierQuotaSchema accepts
MaxTierQuota == 100

\* a schema that forgot the upper limit
tierQuotaSchemaNoMax(tq) == tq.isInteger /\ tq.quota >= 0

\* tierQuotaSchema: z.number().int().min(0).max(100); a quota that is no
\* integer is given by its integer part and isInteger = FALSE
tierQuotaSchemaOk(tq) == tq.isInteger /\ tq.quota >= 0 /\ tq.quota <= MaxTierQuota

\* the rows of user_tier_quotas the WHERE clause of setUserTierQuota matches
QuotaRowsOf(userId, capacityTierId) ==
    {i \in DOMAIN userTierQuotas : /\ userTierQuotas[i].userId = userId
                                   /\ userTierQuotas[i].capacityTierId = capacityTierId}

\* an UPDATE that adds the new quota to the stored one
updateUserTierQuotaAdd(userId, capacityTierId, quota) ==
    [i \in DOMAIN userTierQuotas |->
        IF i \in QuotaRowsOf(userId, capacityTierId)
        THEN [userTierQuotas[i] EXCEPT !.quota = @ + quota]
        ELSE userTierQuotas[i]]

\* setUserTierQuota, the branch existing.length > 0: UPDATE ... SET quota WHERE userId, capacityTierId
updateUserTierQuota(userId, capacityTierId, quota) ==
    [i \in DOMAIN userTierQuotas |->
        IF i \in QuotaRowsOf(userId, capacityTierId)
        THEN [userTierQuotas[i] EXCEPT !.quota = quota]
        ELSE userTierQuotas[i]]

\* setUserTierQuota, the other branch: INSERT INTO user_tier_quotas
insertUserTierQuota(userId, capacityTierId, quota) ==
    Append(userTierQuotas, QuotaRow(userId, capacityTierId, quota))

QuotaTargets == {"m1", "o1"}
QuotaEntry(tierId, quota, isInteger) ==
    [tierId |-> tierId, quota |-> quota, isInteger |-> isInteger]
QuotaEntries == {QuotaEntry("t1", 1, TRUE), QuotaEntry("t1", 2, TRUE),
                 QuotaEntry("t2", 1, TRUE), QuotaEntry("t1", 101, TRUE),
                 QuotaEntry("tX", 1, TRUE), QuotaEntry("t1", 1, FALSE)}
TierQuotaInputs == {<<a>> : a \in QuotaEntries} \cup
                   {<<a, b>> : a \in QuotaEntries, b \in QuotaEntries}

\* PATCH /api/subscriptions/:id/tier-quotas, up to the first await
SetTierQuotas_Start(p) ==
    /\ CanStart(p)
    /\ \E id \in QuotaTargets, tierQuotas \in TierQuotaInputs :
         LET r == [op |-> "setTierQuotas", pc |-> "getUser", user |-> "sa", id |-> id,
                   tierQuotas |-> tierQuotas, i |-> 1, existing |-> FALSE]
         IN  req' = [req EXCEPT ![p] =
                       IF \E k \in DOMAIN tierQuotas : ~tierQuotaSchemaOk(tierQuotas[k])
                       THEN Respond(r, 400, [error |-> "validation"])
                       ELSE r]
    /\ nreq' = nreq - 1
    /\ UNCHANGED <<users, capacityTiers, userTierQuotas, events, eventOrganizers,
                   guests, auditLogs, nextId, clock>>

\* storage.getUser and the role test
SetTierQuotas_GetUser(p) ==
    LET r == req[p] IN
    /\ r.op = "setTierQuotas" /\ r.pc = "getUser"
    /\ req' = [req EXCEPT ![p] =
                 IF r.id \notin DOMAIN users \/ users[r.id].role # "event_manager"
                 THEN Respond(r, 404, [error |-> "not_found"])
                 ELSE [r EXCEPT !.pc = "getTiers"]]
    /\ UNCHANGED <<users, capacityTiers, userTierQuotas, events, eventOrganizers,
                   guests, auditLogs, nextId, clock, nreq>>

\* storage.getCapacityTiers and the test that every tier id exists
SetTierQuotas_GetTiers(p) ==
    LET r == req[p] IN
    /\ r.op = "setTierQuotas" /\ r.pc = "getTiers"
    /\ req' = [req EXCEPT ![p] =
                 IF \E k \in DOMAIN r.tierQuotas :
                        r.tierQuotas[k].tierId \notin DOMAIN capacityTiers
                 THEN Respond(r, 400, [error |-> "tier_not_found"])
                 ELSE [r EXCEPT !.pc = "select"]]
    /\ UNCHANGED <<users, capacityTiers, userTierQuotas, events, eventOrganizers,
                   guests, auditLogs, nextId, clock, nreq>>

\* setUserTierQuota for entry i: the SELECT of the existing rows
SetTierQuotas_Select(p) ==
    LET r == req[p] IN
    /\ r.op = "setTierQuotas" /\ r.pc = "select"
    /\ req' = [req EXCEPT ![p] =
                 [r EXCEPT !.pc = "write",
                           !.existing = QuotaRowsOf(r.id, r.tierQuotas[r.i].tierId) # {}]]
    /\ UNCHANGED <<users, capacityTiers, userTierQuotas, events, eventOrganizers,
                   guests, auditLogs, nextId, clock, nreq>>

\* setUserTierQuota for entry i: the UPDATE or the INSERT, then the next entry
SetTierQuotas_Write(p) ==
    LET r == req[p]
        tq == r.tierQuotas[r.i]
    IN
    /\ r.op = "setTierQuotas" /\ r.pc = "write"
    /\ userTierQuotas' = IF r.existing
                         THEN updateUserTierQuota(r.id, tq.tierId, tq.quota)
                         ELSE insertUserTierQuota(r.id, tq.tierId, tq.quota)
    /\ req' = [req EXCEPT ![p] =
                 IF r.i < Len(r.tierQuotas)
                 THEN [r EXCEPT !.pc = "select", !.i = r.i + 1]
                 ELSE [r EXCEPT !.pc = "audit"]]
    /\ UNCHANGED <<users, capacityTiers, events, eventOrganizers, guests,
                   auditLogs, nextId, clock, nreq>>

\* storage.createAuditLog, then the response
SetTierQuotas_Audit(p) ==
    LET r == req[p] IN
    /\ r.op = "setTierQuotas" /\ r.pc = "audit"
    /\ auditLogs' = createAuditLog("update_tier_quotas", r.user, NoId, NoId)
    /\ req' = [req EXCEPT ![p] = Respond(r, 200, [success |-> TRUE])]
    /\ UNCHANGED <<users, capacityTiers, userTierQuotas, events, eventOrganizers,
                   guests, nextId, clock, nreq>>

\* the seeded database: the users and the tiers, no quota row, no event
InitQuotas ==
    /\ users = InitUsers
    /\ capacityTiers = InitTiers
    /\ userTierQuotas = <<>>
    /\ events = <<>>
    /\ eventOrganizers = {}
    /\ guests = <<>>
    /\ auditLogs = <<>>
    /\ nextId = [event |-> 1, guest |-> 1]
    /\ clock = 1
    /\ req = [p \in 1..NumProcs |-> Idle]
    /\ nreq = MaxUpdates

NextQuotas ==
    \E p \in 1..NumProcs :
        \/ SetTierQuotas_Start(p)
        \/ SetTierQuotas_GetUser(p)
        \/ SetTierQuotas_GetTiers(p)
        \/ SetTierQuotas_Select(p)
        \/ SetTierQuotas_Write(p)
        \/ SetTierQuotas_Audit(p)
        \/ Reply(p)

SpecQuotas == InitQuotas /\ [][NextQuotas]_vars

\* one connection: quota updates and event requests that never overlap
InitSerial ==
    /\ users = InitUsers
    /\ capacityTiers = InitTiers
    /\ userTierQuotas = <<>>
    /\ events = <<>>
    /\ eventOrganizers = {}
    /\ guests = <<>>
    /\ auditLogs = <<>>
    /\ nextId = [event |-> 1, guest |-> 1]
    /\ clock = 1
    /\ req = [p \in {1} |-> Idle]
    /\ nreq = MaxSerial

NextSerial ==
    \E p \in {1} :
        \/ SetTierQuotas_Start(p)
        \/ SetTierQuotas_GetUser(p)
        \/ SetTierQuotas_GetTiers(p)
        \/ SetTierQuotas_Select(p)
        \/ SetTierQuotas_Write(p)
        \/ SetTierQuotas_Audit(p)
        \/ CreateEvent_Start(p, EventUsers, TierInputs, BOOLEAN)
        \/ CreateEvent_GetTier(p)
        \/ CreateEvent_GetQuotas(p)
        \/ CreateEvent_Count(p)
        \/ CreateEvent_Insert(p)
        \/ CreateEvent_Audit(p)
        \/ DeleteEvent_Start(p, EventUsers)
        \/ DeleteEvent_GetEvent(p)
        \/ DeleteEvent_Delete(p)
        \/ Reply(p)

SpecSerial == InitSerial /\ [][NextSerial]_vars

\* ------------------------------------------------------------------- guests
\* storage.getGuestsByEvent(...).length
GuestCount(eventId) == Cardinality({g \in DOMAIN guests : guests[g].eventId = eventId})

\* the access codes the guests table holds
UsedCodes == {guests[g].qrCode : g \in DOMAIN guests}

\* n distinct access codes that no guest holds (fewer when they run out)
RECURSIVE FreshCodes(_, _)
FreshCodes(n, used) ==
    IF n = 0 \/ AccessCodes \ used = {}
    THEN <<>>
    ELSE LET c == CHOOSE c \in AccessCodes \ used : TRUE
         IN  <<c>> \o FreshCodes(n - 1, used \cup {c})

\* what n calls of generateAccessCode may return, one draw per outcome the
\* store distinguishes: n distinct unused codes (which unused codes are drawn
\* makes no difference to the handlers), a code some guest already holds, or
\* the same code twice in one batch
CodeDraws(n) ==
    LET fresh == FreshCodes(n, UsedCodes) IN
    IF Len(fresh) < n
    THEN {[i \in 1..n |-> c] : c \in UsedCodes}
    ELSE {fresh}
         \cup {[fresh EXCEPT ![1] = c] : c \in UsedCodes}
         \cup (IF n >= 2 THEN {[fresh EXCEPT ![2] = fresh[1]]} ELSE {})

\* a guests table without the unique constraint: every INSERT is accepted
NoUniqueConstraint(codes) == FALSE

\* the unique constraint on guests.qr_code rejects the INSERT of these codes
UniqueViolation(codes) ==
    \/ \E i \in DOMAIN codes : codes[i] \in UsedCodes
    \/ \E i, j \in DOMAIN codes : i < j /\ codes[i] = codes[j]

\* tier && !tier.isUnlimited && tier.maxGuests
TierLimits(capacityTierId) ==
    /\ capacityTierId \in DOMAIN capacityTiers
    /\ ~capacityTiers[capacityTierId].isUnlimited
    /\ capacityTiers[capacityTierId].maxGuests # Null
    /\ capacityTiers[capacityTierId].maxGuests # 0

\* an upload that keeps every row, whatever the remaining capacity
KeepAllRows(rows, maxAllowedGuests) == rows

\* guestsToCreate.slice(0, maxAllowedGuests) when the file has more rows;
\* maxAllowedGuests = Null stands for Infinity
RowsToCreate(rows, maxAllowedGuests) ==
    IF maxAllowedGuests # Null /\ rows > maxAllowedGuests
    THEN maxAllowedGuests
    ELSE rows

\* storage.createGuests: one INSERT of all the rows
createGuests(eventId, codes) ==
    guests @@ [g \in nextId.guest..(nextId.guest + Len(codes) - 1) |->
                  NewGuest(eventId, codes[g - nextId.guest + 1])]

\* a capacity test that lets one guest too many in
EventFullLate(currentGuests, maxGuests) == currentGuests > maxGuests

\* currentGuests.length >= tier.maxGuests
EventFull(currentGuests, maxGuests) == currentGuests >= maxGuests

\* POST /api/events/:id/guests, up to the first await
AddGuest_Start(p, Users, Events) ==
    /\ CanStart(p)
    /\ \E u \in Users, e \in Events, nameOk \in BOOLEAN :
         req' = [req EXCEPT ![p] = [op |-> "addGuest", pc |-> "getEvent", user |-> u,
                                    eventId |-> e, nameOk |-> nameOk,
                                    capacityTierId |-> None, guestId |-> NoId]]
    /\ nreq' = nreq - 1
    /\ UNCHANGED <<users, capacityTiers, userTierQuotas, events, eventOrganizers,
                   guests, auditLogs, nextId, clock>>

\* the required name, tested once the capacity tests are passed
AddGuest_CheckName(r) ==
    IF ~r.nameOk
    THEN Respond(r, 400, [error |-> "name_required"])
    ELSE [r EXCEPT !.pc = "createGuest"]

\* storage.getEvent and the ownership test
AddGuest_GetEvent(p) ==
    LET r == req[p] IN
    /\ r.op = "addGuest" /\ r.pc = "getEvent"
    /\ req' = [req EXCEPT ![p] =
                 IF r.eventId \notin DOMAIN events
                 THEN Respond(r, 404, [error |-> "not_found"])
                 ELSE IF ~canBypassOwnership(users[r.user].role)
                         /\ events[r.eventId].eventManagerId # r.user
                 THEN Respond(r, 403, [error |-> "forbidden"])
                 ELSE IF events[r.eventId].capacityTierId # None
                 THEN [r EXCEPT !.pc = "getTier",
                                !.capacityTierId = events[r.eventId].capacityTierId]
                 ELSE AddGuest_CheckName(r)]
    /\ UNCHANGED <<users, capacityTiers, userTierQuotas, events, eventOrganizers,
                   guests, auditLogs, nextId, clock, nreq>>

\* storage.getCapacityTier
AddGuest_GetTier(p) ==
    LET r == req[p] IN
    /\ r.op = "addGuest" /\ r.pc = "getTier"
    /\ req' = [req EXCEPT ![p] =
                 IF TierLimits(r.capacityTierId)
                 THEN [r EXCEPT !.pc = "countGuests"]
                 ELSE AddGuest_CheckName(r)]
    /\ UNCHANGED <<users, capacityTiers, userTierQuotas, events, eventOrganizers,
                   guests, auditLogs, nextId, clock, nreq>>

\* storage.getGuestsByEvent and the capacity test
AddGuest_Count(p) ==
    LET r == req[p] IN
    /\ r.op = "addGuest" /\ r.pc = "countGuests"
    /\ req' = [req EXCEPT ![p] =
                 IF EventFull(GuestCount(r.eventId), capacityTiers[r.capacityTierId].maxGuests)
                 THEN Respond(r, 403, [error |-> "capacity_reached"])
                 ELSE AddGuest_CheckName(r)]
    /\ UNCHANGED <<users, capacityTiers, userTierQuotas, events, eventOrganizers,
                   guests, auditLogs, nextId, clock, nreq>>

\* generateAccessCode and storage.createGuest
AddGuest_Insert(p) ==
    LET r == req[p] IN
    /\ r.op = "addGuest" /\ r.pc = "createGuest"
    /\ \E codes \in CodeDraws(1) :
         IF UniqueViolation(codes)
         THEN /\ req' = [req EXCEPT ![p] = Respond(r, 500, [error |-> "add_guest_failed"])]
              /\ UNCHANGED <<guests, nextId>>
         ELSE /\ guests' = createGuests(r.eventId, codes)
              /\ nextId' = [nextId EXCEPT !.guest = @ + 1]
              /\ req' = [req EXCEPT ![p] = [r EXCEPT !.pc = "audit",
                                                     !.guestId = nextId.guest]]
    /\ UNCHANGED <<users, capacityTiers, userTierQuotas, events, eventOrganizers,
                   auditLogs, clock, nreq>>

\* storage.createAuditLog, then the response
AddGuest_Audit(p) ==
    LET r == req[p] IN
    /\ r.op = "addGuest" /\ r.pc = "audit"
    /\ auditLogs' = createAuditLog("add_guest", r.user, r.eventId, r.guestId)
    /\ req' = [req EXCEPT ![p] = Respond(r, 200, [id |-> r.guestId])]
    /\ UNCHANGED <<users, capacityTiers, userTierQuotas, events, eventOrganizers,
                   guests, nextId, clock, nreq>>

\* the row counts of the uploaded files
UploadRows == {1, MaxRows}

\* POST /api/events/:id/upload-guests with a file of `rows` rows, up to the first await
UploadGuests_Start(p, Users, Events, Rows) ==
    /\ CanStart(p)
    /\ \E u \in Users, e \in Events, rows \in Rows :
         req' = [req EXCEPT ![p] = [op |-> "uploadGuests", pc |-> "getEvent", user |-> u,
                                    eventId |-> e, rows |-> rows,
                                    capacityTierId |-> None, currentGuests |-> Null,
                                    maxAllowedGuests |-> Null, created |-> <<>>]]
    /\ nreq' = nreq - 1
    /\ UNCHANGED <<users, capacityTiers, userTierQuotas, events, eventOrganizers,
                   guests, auditLogs, nextId, clock>>

\* storage.getEvent and the ownership test
UploadGuests_GetEvent(p) ==
    LET r == req[p] IN
    /\ r.op = "uploadGuests" /\ r.pc = "getEvent"
    /\ req' = [req EXCEPT ![p] =
                 IF r.eventId \notin DOMAIN events
                 THEN Respond(r, 404, [error |-> "not_found"])
                 ELSE IF ~canBypassOwnership(users[r.user].role)
                         /\ events[r.eventId].eventManagerId # r.user
                 THEN Respond(r, 403, [error |-> "forbidden"])
                 ELSE IF events[r.eventId].capacityTierId # None
                 THEN [r EXCEPT !.pc = "getTier",
                                !.capacityTierId = events[r.eventId].capacityTierId]
                 ELSE [r EXCEPT !.pc = "createGuests"]]
    /\ UNCHANGED <<users, capacityTiers, userTierQuotas, events, eventOrganizers,
                   guests, auditLogs, nextId, clock, nreq>>

\* storage.getCapacityTier
UploadGuests_GetTier(p) ==
    LET r == req[p] IN
    /\ r.op = "uploadGuests" /\ r.pc = "getTier"
    /\ req' = [req EXCEPT ![p] =
                 IF TierLimits(r.capacityTierId)
                 THEN [r EXCEPT !.pc = "countGuests"]
                 ELSE [r EXCEPT !.pc = "createGuests"]]
    /\ UNCHANGED <<users, capacityTiers, userTierQuotas, events, eventOrganizers,
                   guests, auditLogs, nextId, clock, nreq>>

\* storage.getGuestsByEvent and the remaining capacity
UploadGuests_Count(p) ==
    LET r == req[p]
        remainingCapacity == capacityTiers[r.capacityTierId].maxGuests - GuestCount(r.eventId)
    IN
    /\ r.op = "uploadGuests" /\ r.pc = "countGuests"
    /\ req' = [req EXCEPT ![p] =
                 IF remainingCapacity <= 0
                 THEN Respond([r EXCEPT !.currentGuests = GuestCount(r.eventId)],
                              403, [error |-> "capacity_reached"])
                 ELSE [r EXCEPT !.pc = "createGuests", !.currentGuests = GuestCount(r.eventId),
                                !.maxAllowedGuests = remainingCapacity]]
    /\ UNCHANGED <<users, capacityTiers, userTierQuotas, events, eventOrganizers,
                   guests, auditLogs, nextId, clock, nreq>>

\* generateAccessCode per row, the slice to the remaining capacity, storage.createGuests
UploadGuests_Insert(p) ==
    LET r == req[p]
        n == RowsToCreate(r.rows, r.maxAllowedGuests)
    IN
    /\ r.op = "uploadGuests" /\ r.pc = "createGuests"
    /\ \E codes \in CodeDraws(n) :
         IF UniqueViolation(codes)
         THEN /\ req' = [req EXCEPT ![p] = Respond(r, 500, [error |-> "upload_failed"])]
              /\ UNCHANGED <<guests, nextId>>
         ELSE /\ guests' = createGuests(r.eventId, codes)
              /\ nextId' = [nextId EXCEPT !.guest = @ + n]
              /\ req' = [req EXCEPT ![p] =
                           [r EXCEPT !.pc = "audit",
                                     !.created = [i \in 1..n |-> nextId.guest + i - 1]]]
    /\ UNCHANGED <<users, capacityTiers, userTierQuotas, events, eventOrganizers,
                   auditLogs, clock, nreq>>

\* storage.createAuditLog, then res.json({ count, guests })
UploadGuests_Audit(p) ==
    LET r == req[p] IN
    /\ r.op = "uploadGuests" /\ r.pc = "audit"
    /\ auditLogs' = createAuditLog("upload_guests", r.user, r.eventId, NoId)
    /\ req' = [req EXCEPT ![p] = Respond(r, 200, [count |-> Len(r.created),
                                                  guests |-> r.created])]
    /\ UNCHANGED <<users, capacityTiers, userTierQuotas, events, eventOrganizers,
                   guests, nextId, clock, nreq>>

\* the events of manager m1: 1 on the limited tier t1, 2 on the unlimited tier
\* t2, 3 without a tier; no guest yet
InitGuestTables ==
    /\ users = InitUsers
    /\ capacityTiers = InitTiers
    /\ userTierQuotas = <<>>
    /\ events = [e \in {1, 2, 3} |->
                   [eventManagerId |-> "m1",
                    capacityTierId |-> CASE e = 1 -> "t1" [] e = 2 -> "t2" [] OTHER -> None,
                    isActive |-> TRUE]]
    /\ eventOrganizers = {}
    /\ guests = <<>>
    /\ auditLogs = <<>>
    /\ nextId = [event |-> 4, guest |-> 1]
    /\ clock = 1

\* the manager's devices adding and uploading guests to event 1 at the same time
InitGuests ==
    /\ InitGuestTables
    /\ req = [p \in 1..NumProcs |-> Idle]
    /\ nreq = MaxGuestRequests

NextGuests ==
    \E p \in 1..NumProcs :
        \/ AddGuest_Start(p, {"m1"}, {1})
        \/ AddGuest_GetEvent(p)
        \/ AddGuest_GetTier(p)
        \/ AddGuest_Count(p)
        \/ AddGuest_Insert(p)
        \/ AddGuest_Audit(p)
        \/ UploadGuests_Start(p, {"m1"}, {1}, UploadRows)
        \/ UploadGuests_GetEvent(p)
        \/ UploadGuests_GetTier(p)
        \/ UploadGuests_Count(p)
        \/ UploadGuests_Insert(p)
        \/ UploadGuests_Audit(p)
        \/ Reply(p)

SpecGuests == InitGuests /\ [][NextGuests]_vars

\* the manager's devices adding guests to events 1 and 3 and uploading guests
\* to event 3 at the same time: the access codes of different events meet
InitCodes ==
    /\ InitGuestTables
    /\ req = [p \in 1..NumProcs |-> Idle]
    /\ nreq = MaxCodeRequests

NextCodes ==
    \E p \in 1..NumProcs :
        \/ AddGuest_Start(p, {"m1"}, {1, 3})
        \/ AddGuest_GetEvent(p)
        \/ AddGuest_GetTier(p)
        \/ AddGuest_Count(p)
        \/ AddGuest_Insert(p)
        \/ AddGuest_Audit(p)
        \/ UploadGuests_Start(p, {"m1"}, {3}, UploadRows)
        \/ UploadGuests_GetEvent(p)
        \/ UploadGuests_Insert(p)
        \/ UploadGuests_Audit(p)
        \/ Reply(p)

SpecCodes == InitCodes /\ [][NextCodes]_vars

\* one connection: guests added and uploaded to any event, one request at a time
InitImport ==
    /\ InitGuestTables
    /\ req = [p \in {1} |-> Idle]
    /\ nreq = MaxImports

NextImport ==
    \E p \in {1} :
        \/ AddGuest_Start(p, {"m1", "m2"}, {1, 2, 3, 9})
        \/ AddGuest_GetEvent(p)
        \/ AddGuest_GetTier(p)
        \/ AddGuest_Count(p)
        \/ AddGuest_Insert(p)
        \/ AddGuest_Audit(p)
        \/ UploadGuests_Start(p, {"m1", "m2"}, {1, 2, 3, 9}, UploadRows)
        \/ UploadGuests_GetEvent(p)
        \/ UploadGuests_GetTier(p)
        \/ UploadGuests_Count(p)
        \/ UploadGuests_Insert(p)
        \/ UploadGuests_Audit(p)
        \/ Reply(p)

SpecImport == InitImport /\ [][NextImport]_vars

\* --------------------------------------- guest, event and user maintenance
\* db.update(table).set(data).where(id): the columns data names are replaced
setColumns(row, data) == [f \in DOMAIN row |-> IF f \in DOMAIN data THEN data[f] ELSE row[f]]

\* an update that also resets the check-in columns of the row
updateGuestReset(id, data) ==
    IF id \in DOMAIN guests
    THEN [guests EXCEPT ![id] = [setColumns(@, data) EXCEPT !.isCheckedIn = FALSE]]
    ELSE guests

\* storage.updateGuest
updateGuest(id, data) ==
    IF id \in DOMAIN guests
    THEN [guests EXCEPT ![id] = setColumns(@, data)]
    ELSE guests

\* storage.deleteGuest
deleteGuest(id) == [g \in DOMAIN guests \ {id} |-> guests[g]]

\* storage.updateEvent
updateEvent(id, data) ==
    IF id \in DOMAIN events
    THEN [events EXCEPT ![id] = setColumns(@, data)]
    ELSE events

\* the roles the maintenance routes admit
ManagerRoles == {"event_manager", "admin", "super_admin"}
\* the users who send maintenance requests
DeskUsers == {"m1", "sa"}
\* req.body.name of PATCH /api/guests/:id (None: not given)
GuestNames == {None, "renamed"}

\* PATCH /api/guests/:id and DELETE /api/guests/:id, up to the first await
GuestChange_Start(p, op) ==
    /\ CanStart(p)
    /\ \E u \in DeskUsers, id \in GuestIdInputs, name \in GuestNames :
         LET r == [op |-> op, pc |-> "getGuest", user |-> u, id |-> id,
                   name |-> IF op = "updateGuest" THEN name ELSE None,
                   eventId |-> NoId]
         IN  req' = [req EXCEPT ![p] =
                       IF ~requireRole(u, ManagerRoles)
                       THEN Respond(r, 403, [error |-> "forbidden"])
                       ELSE r]
    /\ nreq' = nreq - 1
    /\ UNCHANGED <<users, capacityTiers, userTierQuotas, events, eventOrganizers,
                   guests, auditLogs, nextId, clock>>

UpdateGuest_Start(p) == GuestChange_Start(p, "updateGuest")
DeleteGuest_Start(p) == GuestChange_Start(p, "deleteGuest")

\* storage.getGuest
GuestChange_GetGuest(p) ==
    LET r == req[p] IN
    /\ r.op \in {"updateGuest", "deleteGuest"} /\ r.pc = "getGuest"
    /\ req' = [req EXCEPT ![p] =
                 IF r.id \notin DOMAIN guests
                 THEN Respond(r, 404, [error |-> "guest_not_found"])
                 ELSE [r EXCEPT !.pc = "getEvent", !.eventId = guests[r.id].eventId]]
    /\ UNCHANGED <<users, capacityTiers, userTierQuotas, events, eventOrganizers,
                   guests, auditLogs, nextId, clock, nreq>>

\* storage.getEvent(guest.eventId) and the ownership test
GuestChange_GetEvent(p) ==
    LET r == req[p] IN
    /\ r.op \in {"updateGuest", "deleteGuest"} /\ r.pc = "getEvent"
    /\ req' = [req EXCEPT ![p] =
                 IF r.eventId \notin DOMAIN events
                 THEN Respond(r, 404, [error |-> "event_not_found"])
                 ELSE IF ~canBypassOwnership(users[r.user].role)
                         /\ events[r.eventId].eventManagerId # r.user
                 THEN Respond(r, 403, [error |-> "forbidden"])
                 ELSE [r EXCEPT !.pc = "write"]]
    /\ UNCHANGED <<users, capacityTiers, userTierQuotas, events, eventOrganizers,
                   guests, auditLogs, nextId, clock, nreq>>

\* storage.updateGuest with the five editable fields of the body
UpdateGuest_Write(p) ==
    LET r == req[p] IN
    /\ r.op = "updateGuest" /\ r.pc = "write"
    /\ guests' = updateGuest(r.id, IF r.name = None THEN <<>> ELSE [name |-> r.name])
    /\ req' = [req EXCEPT ![p] = [r EXCEPT !.pc = "audit"]]
    /\ UNCHANGED <<users, capacityTiers, userTierQuotas, events, eventOrganizers,
                   auditLogs, nextId, clock, nreq>>

\* storage.deleteGuest
DeleteGuest_Write(p) ==
    LET r == req[p] IN
    /\ r.op = "deleteGuest" /\ r.pc = "write"
    /\ guests' = deleteGuest(r.id)
    /\ req' = [req EXCEPT ![p] = [r EXCEPT !.pc = "audit"]]
    /\ UNCHANGED <<users, capacityTiers, userTierQuotas, events, eventOrganizers,
                   auditLogs, nextId, clock, nreq>>

\* storage.createAuditLog (update_guest / delete_guest), then the response
GuestChange_Audit(p) ==
    LET r == req[p] IN
    /\ r.op \in {"updateGuest", "deleteGuest"} /\ r.pc = "audit"
    /\ auditLogs' = createAuditLog(IF r.op = "updateGuest" THEN "update_guest"
                                   ELSE "delete_guest", r.user, r.eventId, r.id)
    /\ req' = [req EXCEPT ![p] = Respond(r, 200, [success |-> TRUE])]
    /\ UNCHANGED <<users, capacityTiers, userTierQuotas, events, eventOrganizers,
                   guests, nextId, clock, nreq>>

\* req.body of PATCH /api/events/:id: any columns of the event
EventBodies == {<<>>, [isActive |-> FALSE], [capacityTierId |-> "t1"],
                [eventManagerId |-> "m2"]}
EventIdInputs == {1, 2, 9}

\* PATCH /api/events/:id, up to the first await
UpdateEvent_Start(p) ==
    /\ CanStart(p)
    /\ \E u \in DeskUsers, id \in EventIdInputs, body \in EventBodies :
         LET r == [op |-> "updateEvent", pc |-> "getEvent", user |-> u, id |-> id,
                   data |-> body]
         IN  req' = [req EXCEPT ![p] =
                       IF ~requireRole(u, ManagerRoles)
                       THEN Respond(r, 403, [error |-> "forbidden"])
                       ELSE r]
    /\ nreq' = nreq - 1
    /\ UNCHANGED <<users, capacityTiers, userTierQuotas, events, eventOrganizers,
                   guests, auditLogs, nextId, clock>>

\* storage.getEvent and the ownership test
UpdateEvent_GetEvent(p) ==
    LET r == req[p] IN
    /\ r.op = "updateEvent" /\ r.pc = "getEvent"
    /\ req' = [req EXCEPT ![p] =
                 IF r.id \notin DOMAIN events
                 THEN Respond(r, 404, [error |-> "not_found"])
                 ELSE IF ~canBypassOwnership(users[r.user].role)
                         /\ events[r.id].eventManagerId # r.user
                 THEN Respond(r, 403, [error |-> "forbidden"])
                 ELSE [r EXCEPT !.pc = "updateEvent"]]
    /\ UNCHANGED <<users, capacityTiers, userTierQuotas, events, eventOrganizers,
                   guests, auditLogs, nextId, clock, nreq>>

\* storage.updateEvent with the whole body, then the response
UpdateEvent_Write(p) ==
    LET r == req[p] IN
    /\ r.op = "updateEvent" /\ r.pc = "updateEvent"
    /\ events' = updateEvent(r.id, r.data)
    /\ req' = [req EXCEPT ![p] = Respond(r, 200, [success |-> TRUE])]
    /\ UNCHANGED <<users, capacityTiers, userTierQuotas, eventOrganizers, guests,
                   auditLogs, nextId, clock, nreq>>

\* the organizers the routes are asked to assign or remove
OrganizerInputs == {"o1", "o2"}

\* POST /api/events/:id/organizers and DELETE /api/events/:id/organizers/:organizerId,
\* up to the first await
Organizer_Start(p, op) ==
    /\ CanStart(p)
    /\ \E u \in DeskUsers, id \in EventIdInputs, organizerId \in OrganizerInputs :
         LET r == [op |-> op, pc |-> "getEvent", user |-> u, id |-> id,
                   organizerId |-> organizerId]
         IN  req' = [req EXCEPT ![p] =
                       IF ~requireRole(u, ManagerRoles)
                       THEN Respond(r, 403, [error |-> "forbidden"])
                       ELSE r]
    /\ nreq' = nreq - 1
    /\ UNCHANGED <<users, capacityTiers, userTierQuotas, events, eventOrganizers,
                   guests, auditLogs, nextId, clock>>

AssignOrganizer_Start(p) == Organizer_Start(p, "assignOrganizer")
RemoveOrganizer_Start(p) == Organizer_Start(p, "removeOrganizer")

\* storage.getEvent and the ownership test
Organizer_GetEvent(p) ==
    LET r == req[p] IN
    /\ r.op \in {"assignOrganizer", "removeOrganizer"} /\ r.pc = "getEvent"
    /\ req' = [req EXCEPT ![p] =
                 IF r.id \notin DOMAIN events
                 THEN Respond(r, 404, [error |-> "not_found"])
                 ELSE IF ~canBypassOwnership(users[r.user].role)
                         /\ events[r.id].eventManagerId # r.user
                 THEN Respond(r, 403, [error |-> "forbidden"])
                 ELSE IF r.op = "assignOrganizer" /\ users[r.user].role = "event_manager"
                 THEN [r EXCEPT !.pc = "getUser"]
                 ELSE [r EXCEPT !.pc = "write"]]
    /\ UNCHANGED <<users, capacityTiers, userTierQuotas, events, eventOrganizers,
                   guests, auditLogs, nextId, clock, nreq>>

\* storage.getUser(organizerId): an event manager assigns only organizers they created
AssignOrganizer_GetUser(p) ==
    LET r == req[p] IN
    /\ r.op = "assignOrganizer" /\ r.pc = "getUser"
    /\ req' = [req EXCEPT ![p] =
                 IF r.organizerId \notin DOMAIN users
                    \/ users[r.organizerId].createdById # r.user
                 THEN Respond(r, 403, [error |-> "not_your_organizer"])
                 ELSE [r EXCEPT !.pc = "write"]]
    /\ UNCHANGED <<users, capacityTiers, userTierQuotas, events, eventOrganizers,
                   guests, auditLogs, nextId, clock, nreq>>

\* storage.assignOrganizer / storage.removeOrganizer, then the response
Organizer_Write(p) ==
    LET r == req[p]
        row == [eventId |-> r.id, organizerId |-> r.organizerId]
    IN
    /\ r.op \in {"assignOrganizer", "removeOrganizer"} /\ r.pc = "write"
    /\ eventOrganizers' = IF r.op = "assignOrganizer"
                          THEN eventOrganizers \cup {row}
                          ELSE eventOrganizers \ {row}
    /\ req' = [req EXCEPT ![p] = Respond(r, 200, [success |-> TRUE])]
    /\ UNCHANGED <<users, capacityTiers, userTierQuotas, events, guests,
                   auditLogs, nextId, clock, nreq>>

\* DELETE /api/users/:id by the super admin, up to the target's lookup
DeleteUser_Start(p) ==
    /\ CanStart(p)
    /\ \E id \in OrganizerInputs :
         req' = [req EXCEPT ![p] = [op |-> "deleteUser", pc |-> "getUser",
                                    user |-> "sa", id |-> id]]
    /\ nreq' = nreq - 1
    /\ UNCHANGED <<users, capacityTiers, userTierQuotas, events, eventOrganizers,
                   guests, auditLogs, nextId, clock>>

\* storage.getUser(req.params.id), the self-delete test and canDelete
DeleteUser_GetUser(p) ==
    LET r == req[p] IN
    /\ r.op = "deleteUser" /\ r.pc = "getUser"
    /\ req' = [req EXCEPT ![p] =
                 IF r.id \notin DOMAIN users
                 THEN Respond(r, 404, [error |-> "not_found"])
                 ELSE IF r.id = r.user
                 THEN Respond(r, 403, [error |-> "self_delete"])
                 ELSE IF ~(\/ users[r.user].role = "super_admin"
                              /\ users[r.id].role # "super_admin"
                           \/ users[r.user].role = "admin"
                              /\ users[r.id].role \in {"event_manager", "organizer"}
                           \/ /\ users[r.user].role = "event_manager"
                              /\ users[r.id].role = "organizer"
                              /\ users[r.id].createdById = r.user)
                 THEN Respond(r, 403, [error |-> "forbidden"])
                 ELSE [r EXCEPT !.pc = "deleteUser"]]
    /\ UNCHANGED <<users, capacityTiers, userTierQuotas, events, eventOrganizers,
                   guests, auditLogs, nextId, clock, nreq>>

\* storage.deleteUser, then the response
DeleteUser_Write(p) ==
    LET r == req[p] IN
    /\ r.op = "deleteUser" /\ r.pc = "deleteUser"
    /\ users' = [u \in DOMAIN users \ {r.id} |-> users[u]]
    /\ req' = [req EXCEPT ![p] = Respond(r, 200, [success |-> TRUE])]
    /\ UNCHANGED <<capacityTiers, userTierQuotas, events, eventOrganizers, guests,
                   auditLogs, nextId, clock, nreq>>

\* one connection at the door and at the desk: check-ins, guest and event
\* maintenance, organizer assignment and user deletion, one request at a time,
\* on the database of InitCheckIn
InitDesk ==
    /\ users = InitUsers
    /\ capacityTiers = InitTiers
    /\ userTierQuotas = <<>>
    /\ events = [e \in {1, 2} |->
                   [eventManagerId |-> IF e = 1 THEN "m1" ELSE "m2",
                    capacityTierId |-> "t2", isActive |-> TRUE]]
    /\ eventOrganizers = {[eventId |-> 1, organizerId |-> "o1"]}
    /\ guests = (1 :> NewGuest(1, <<"A", "-", "B", "-", "C">>))
    /\ auditLogs = <<>>
    /\ nextId = [event |-> 3, guest |-> 2]
    /\ clock = 1
    /\ req = [p \in {1} |-> Idle]
    /\ nreq = MaxDesk

NextDesk ==
    \E p \in {1} :
        \/ CheckInById_Start(p)
        \/ CheckInByCode_Start(p)
        \/ CheckIn_GetGuest(p)
        \/ CheckIn_Access(p)
        \/ CheckIn_Duplicate(p)
        \/ CheckIn_Write(p)
        \/ CheckIn_Audit(p)
        \/ AddGuest_Start(p, DeskUsers, {1})
        \/ AddGuest_GetEvent(p)
        \/ AddGuest_GetTier(p)
        \/ AddGuest_Insert(p)
        \/ AddGuest_Audit(p)
        \/ UpdateGuest_Start(p)
        \/ DeleteGuest_Start(p)
        \/ GuestChange_GetGuest(p)
        \/ GuestChange_GetEvent(p)
        \/ UpdateGuest_Write(p)
        \/ DeleteGuest_Write(p)
        \/ GuestChange_Audit(p)
        \/ UpdateEvent_Start(p)
        \/ UpdateEvent_GetEvent(p)
        \/ UpdateEvent_Write(p)
        \/ DeleteEvent_Start(p, DeskUsers)
        \/ DeleteEvent_GetEvent(p)
        \/ DeleteEvent_Delete(p)
        \/ AssignOrganizer_Start(p)
        \/ RemoveOrganizer_Start(p)
        \/ Organizer_GetEvent(p)
        \/ AssignOrganizer_GetUser(p)
        \/ Organizer_Write(p)
        \/ DeleteUser_Start(p)
        \/ DeleteUser_GetUser(p)
        \/ DeleteUser_Write(p)
        \/ Reply(p)

SpecDesk == InitDesk /\ [][NextDesk]_vars

\* ------------------------------------------------------------ quota summary
\* Array.prototype.reduce((sum, t) => sum + t[field], 0) over the tier list
RECURSIVE SumOf(_, _)
SumOf(info, field) ==
    IF DOMAIN info = {}
    THEN 0
    ELSE LET t == CHOOSE t \in DOMAIN info : TRUE
         IN  info[t][field] + SumOf([u \in DOMAIN info \ {t} |-> info[u]], field)

\* quota - used without the floor
SignedDifference(quota, used) == quota - used

\* Math.max(0, quota - used)
Remaining(quota, used) == IF quota - used > 0 THEN quota - used ELSE 0

\* userTierQuotas.find(q => q.capacityTierId === tier.id)?.quota || 0
findQuota(rows, tierId) ==
    LET hits == SelectSeq(rows, LAMBDA q : q.capacityTierId = tierId)
    IN  IF hits = <<>> THEN 0 ELSE hits[1].quota

\* the users who ask for their quota summary
SummaryUsers == {"m1", "sa"}

\* GET /api/quota/info, up to the first await
QuotaInfo_Start(p) ==
    /\ CanStart(p)
    /\ \E u \in SummaryUsers :
         LET r == [op |-> "quotaInfo", pc |-> "getQuotas", user |-> u,
                   quotas |-> <<>>, pending |-> {}, info |-> <<>>]
         IN  req' = [req EXCEPT ![p] =
                       IF ~requireRole(u, {"event_manager", "admin", "super_admin"})
                       THEN Respond(r, 403, [error |-> "forbidden"])
                       ELSE IF users[u].role # "event_manager"
                       THEN Respond(r, 200, [hasQuota |-> FALSE])
                       ELSE r]
    /\ nreq' = nreq - 1
    /\ UNCHANGED <<users, capacityTiers, userTierQuotas, events, eventOrganizers,
                   guests, auditLogs, nextId, clock>>

\* storage.getUserTierQuotas(user.id)
QuotaInfo_GetQuotas(p) ==
    LET r == req[p] IN
    /\ r.op = "quotaInfo" /\ r.pc = "getQuotas"
    /\ req' = [req EXCEPT ![p] =
                 [r EXCEPT !.pc = "getTiers",
                           !.quotas = SelectSeq(userTierQuotas,
                                                LAMBDA q : q.userId = r.user)]]
    /\ UNCHANGED <<users, capacityTiers, userTierQuotas, events, eventOrganizers,
                   guests, auditLogs, nextId, clock, nreq>>

\* storage.getCapacityTiers() and the isActive filter
QuotaInfo_GetTiers(p) ==
    LET r == req[p] IN
    /\ r.op = "quotaInfo" /\ r.pc = "getTiers"
    /\ req' = [req EXCEPT ![p] =
                 [r EXCEPT !.pc = "count",
                           !.pending = {t \in DOMAIN capacityTiers :
                                          capacityTiers[t].isActive}]]
    /\ UNCHANGED <<users, capacityTiers, userTierQuotas, events, eventOrganizers,
                   guests, auditLogs, nextId, clock, nreq>>

\* one callback of the Promise.all: storage.getEventCountByManagerAndTier for a tier
QuotaInfo_Count(p) ==
    LET r == req[p] IN
    /\ r.op = "quotaInfo" /\ r.pc = "count"
    /\ \E t \in r.pending :
         LET quota == findQuota(r.quotas, t)
             used == getEventCountByManagerAndTier(r.user, t)
         IN  req' = [req EXCEPT ![p] =
                       [r EXCEPT !.pending = @ \ {t},
                                 !.info = @ @@ (t :> [quota |-> quota, used |-> used,
                                                      remaining |-> Remaining(quota, used)])]]
    /\ UNCHANGED <<users, capacityTiers, userTierQuotas, events, eventOrganizers,
                   guests, auditLogs, nextId, clock, nreq>>

\* the totals and the response
QuotaInfo_Totals(p) ==
    LET r == req[p]
        totalQuota == SumOf(r.info, "quota")
        totalUsed == SumOf(r.info, "used")
    IN
    /\ r.op = "quotaInfo" /\ r.pc = "count" /\ r.pending = {}
    /\ req' = [req EXCEPT ![p] =
                 Respond(r, 200, [hasQuota |-> totalQuota > 0,
                                  totalQuota |-> totalQuota,
                                  usedQuota |-> totalUsed,
                                  remainingQuota |-> Remaining(totalQuota, totalUsed),
                                  tierQuotas |-> r.info])]
    /\ UNCHANGED <<users, capacityTiers, userTierQuotas, events, eventOrganizers,
                   guests, auditLogs, nextId, clock, nreq>>

\* one connection: quota updates, event requests and quota summaries that
\* never overlap
InitSummary ==
    /\ users = InitUsers
    /\ capacityTiers = InitTiers
    /\ userTierQuotas = <<>>
    /\ events = <<>>
    /\ eventOrganizers = {}
    /\ guests = <<>>
    /\ auditLogs = <<>>
    /\ nextId = [event |-> 1, guest |-> 1]
    /\ clock = 1
    /\ req = [p \in {1} |-> Idle]
    /\ nreq = MaxSummary

NextSummary ==
    \E p \in {1} :
        \/ SetTierQuotas_Start(p)
        \/ SetTierQuotas_GetUser(p)
        \/ SetTierQuotas_GetTiers(p)
        \/ SetTierQuotas_Select(p)
        \/ SetTierQuotas_Write(p)
        \/ SetTierQuotas_Audit(p)
        \/ CreateEvent_Start(p, {"m1"}, {"t1"}, {TRUE})
        \/ CreateEvent_GetTier(p)
        \/ CreateEvent_GetQuotas(p)
        \/ CreateEvent_Count(p)
        \/ CreateEvent_Insert(p)
        \/ CreateEvent_Audit(p)
        \/ QuotaInfo_Start(p)
        \/ QuotaInfo_GetQuotas(p)
        \/ QuotaInfo_GetTiers(p)
        \/ QuotaInfo_Count(p)
        \/ QuotaInfo_Totals(p)
        \/ Reply(p)

SpecSummary == InitSummary /\ [][NextSummary]_vars

\* ------------------------------------------------------------ tier registry
\* tierSchema of POST /api/capacity-tiers: name min(1), minGuests min(0),
\* maxGuests any number or null, isUnlimited boolean
tierSchemaOk(body) == body.name # "" /\ body.minGuests >= 0

\* storage.updateCapacityTier
updateCapacityTier(id, data) ==
    IF id \in DOMAIN capacityTiers
    THEN [capacityTiers EXCEPT ![id] = setColumns(@, data)]
    ELSE capacityTiers

\* the ids gen_random_uuid() gives to new tiers
TierIdPool == {"t4", "t5", "t6", "t7", "t8", "t9"}

\* the users who send tier requests
TierUsers == {"sa", "m1"}
\* req.body of POST /api/capacity-tiers (maxGuests Null: null or not given)
TierBodies == [name : {"", "vip"}, minGuests : {-2, 0, 3},
               maxGuests : {Null, 0, 2, 5}, isUnlimited : BOOLEAN]
\* req.params.id and req.body of PATCH /api/capacity-tiers/:id
TierIdInputs == {"t1", "t2", "tX"}
TierPatches == {[maxGuests |-> Null], [maxGuests |-> 0], [minGuests |-> 3],
                [minGuests |-> -2], [isUnlimited |-> FALSE], [isActive |-> FALSE]}

\* POST /api/capacity-tiers, up to the first await
CreateTier_Start(p) ==
    /\ CanStart(p)
    /\ \E u \in TierUsers, body \in TierBodies :
         LET r == [op |-> "createTier", pc |-> "createCapacityTier", user |-> u,
                   data |-> body]
         IN  req' = [req EXCEPT ![p] =
                       IF ~requireRole(u, {"super_admin"})
                       THEN Respond(r, 403, [error |-> "forbidden"])
                       ELSE IF ~tierSchemaOk(body)
                       THEN Respond(r, 400, [error |-> "invalid"])
                       ELSE r]
    /\ nreq' = nreq - 1
    /\ UNCHANGED <<users, capacityTiers, userTierQuotas, events, eventOrganizers,
                   guests, auditLogs, nextId, clock>>

\* storage.createCapacityTier, then the response
CreateTier_Insert(p) ==
    LET r == req[p] IN
    /\ r.op = "createTier" /\ r.pc = "createCapacityTier"
    /\ TierIdPool \ DOMAIN capacityTiers # {}
    /\ LET id == CHOOSE t \in TierIdPool : t \notin DOMAIN capacityTiers
       IN  capacityTiers' = capacityTiers @@
               (id :> [isActive |-> TRUE, isUnlimited |-> r.data.isUnlimited,
                       minGuests |-> r.data.minGuests, maxGuests |-> r.data.maxGuests])
    /\ req' = [req EXCEPT ![p] = Respond(r, 200, [success |-> TRUE])]
    /\ UNCHANGED <<users, userTierQuotas, events, eventOrganizers, guests,
                   auditLogs, nextId, clock, nreq>>

\* PATCH /api/capacity-tiers/:id, up to the first await
UpdateTier_Start(p) ==
    /\ CanStart(p)
    /\ \E u \in TierUsers, id \in TierIdInputs, body \in TierPatches :
         LET r == [op |-> "updateTier", pc |-> "getCapacityTier", user |-> u,
                   id |-> id, data |-> body]
         IN  req' = [req EXCEPT ![p] =
                       IF ~requireRole(u, {"super_admin"})
                       THEN Respond(r, 403, [error |-> "forbidden"])
                       ELSE r]
    /\ nreq' = nreq - 1
    /\ UNCHANGED <<users, capacityTiers, userTierQuotas, events, eventOrganizers,
                   guests, auditLogs, nextId, clock>>

\* storage.getCapacityTier
UpdateTier_GetTier(p) ==
    LET r == req[p] IN
    /\ r.op = "updateTier" /\ r.pc = "getCapacityTier"
    /\ req' = [req EXCEPT ![p] =
                 IF r.id \notin DOMAIN capacityTiers
                 THEN Respond(r, 404, [error |-> "not_found"])
                 ELSE [r EXCEPT !.pc = "updateCapacityTier"]]
    /\ UNCHANGED <<users, capacityTiers, userTierQuotas, events, eventOrganizers,
                   guests, auditLogs, nextId, clock, nreq>>

\* storage.updateCapacityTier with the whole body, then the response
UpdateTier_Write(p) ==
    LET r == req[p] IN
    /\ r.op = "updateTier" /\ r.pc = "updateCapacityTier"
    /\ capacityTiers' = updateCapacityTier(r.id, r.data)
    /\ req' = [req EXCEPT ![p] = Respond(r, 200, [success |-> TRUE])]
    /\ UNCHANGED <<users, userTierQuotas, events, eventOrganizers, guests,
                   auditLogs, nextId, clock, nreq>>

\* one connection that creates and updates tiers on the seeded registry
InitTierRegistry ==
    /\ users = InitUsers
    /\ capacityTiers = InitTiers
    /\ userTierQuotas = <<>>
    /\ events = <<>>
    /\ eventOrganizers = {}
    /\ guests = <<>>
    /\ auditLogs = <<>>
    /\ nextId = [event |-> 1, guest |-> 1]
    /\ clock = 1
    /\ req = [p \in {1} |-> Idle]
    /\ nreq = MaxTierRequests

NextTierRegistry ==
    \E p \in {1} :
        \/ CreateTier_Start(p)
        \/ CreateTier_Insert(p)
        \/ UpdateTier_Start(p)
        \/ UpdateTier_GetTier(p)
        \/ UpdateTier_Write(p)
        \/ Reply(p)

SpecTierRegistry == InitTierRegistry /\ [][NextTierRegistry]_vars

\* ------------------------------------------------------------ user creation
\* storage.getUserByUsername: some user has the username
getUserByUsername(username) == \E u \in DOMAIN users : users[u].username = username

\* the ids gen_random_uuid() gives to new users
UserIdPool == {"u1", "u2", "u3", "u4"}

\* the sessions that send POST /api/users: seeded users and the first created one
CreatorSessions == {"sa", "m1", "o1", "u1"}
\* req.body.role (None: not given, the column default applies)
RoleInputs == {None, "super_admin", "admin", "event_manager", "organizer"}
\* req.body.username
UsernameInputs == {"n1", "n2", "m1"}

\* the refusals of POST /api/users by the requested role
RoleRefused(role, currentRole) ==
    \/ role = "admin" /\ currentRole # "super_admin"
    \/ role = "event_manager" /\ currentRole \notin {"super_admin", "admin"}
    \/ role = "organizer" /\ currentRole \notin {"super_admin", "admin", "event_manager"}

\* POST /api/users, up to the first await
CreateUser_Start(p) ==
    /\ CanStart(p)
    /\ \E u \in CreatorSessions, role \in RoleInputs, username \in UsernameInputs,
          valid \in BOOLEAN :
         req' = [req EXCEPT ![p] = [op |-> "createUser", pc |-> "getUser", user |-> u,
                                    role |-> role, username |-> username,
                                    valid |-> valid]]
    /\ nreq' = nreq - 1
    /\ UNCHANGED <<users, capacityTiers, userTierQuotas, events, eventOrganizers,
                   guests, auditLogs, nextId, clock>>

\* storage.getUser(session.userId), the role tests and insertUserSchema
CreateUser_GetUser(p) ==
    LET r == req[p] IN
    /\ r.op = "createUser" /\ r.pc = "getUser"
    /\ req' = [req EXCEPT ![p] =
                 IF r.user \notin DOMAIN users
                 THEN Respond(r, 401, [error |-> "unauthorized"])
                 ELSE IF RoleRefused(r.role, users[r.user].role)
                 THEN Respond(r, 403, [error |-> "forbidden"])
                 ELSE IF ~r.valid
                 THEN Respond(r, 400, [error |-> "validation"])
                 ELSE [r EXCEPT !.pc = "getUserByUsername"]]
    /\ UNCHANGED <<users, capacityTiers, userTierQuotas, events, eventOrganizers,
                   guests, auditLogs, nextId, clock, nreq>>

\* storage.getUserByUsername
CreateUser_CheckName(p) ==
    LET r == req[p] IN
    /\ r.op = "createUser" /\ r.pc = "getUserByUsername"
    /\ req' = [req EXCEPT ![p] =
                 IF getUserByUsername(r.username)
                 THEN Respond(r, 400, [error |-> "username_taken"])
                 ELSE [r EXCEPT !.pc = "createUser"]]
    /\ UNCHANGED <<users, capacityTiers, userTierQuotas, events, eventOrganizers,
                   guests, auditLogs, nextId, clock, nreq>>

\* storage.createUser with the body and createdById, then the response
CreateUser_Insert(p) ==
    LET r == req[p] IN
    /\ r.op = "createUser" /\ r.pc = "createUser"
    /\ UserIdPool \ DOMAIN users # {}
    /\ LET id == CHOOSE u \in UserIdPool : u \notin DOMAIN users
       IN  users' = users @@
               (id :> [role |-> IF r.role = None THEN "organizer" ELSE r.role,
                       name |-> "New User", createdById |-> r.user,
                       username |-> r.username])
    /\ req' = [req EXCEPT ![p] = Respond(r, 200, [success |-> TRUE])]
    /\ UNCHANGED <<capacityTiers, userTierQuotas, events, eventOrganizers, guests,
                   auditLogs, nextId, clock, nreq>>

\* one connection that creates users on the seeded accounts
InitAccounts ==
    /\ users = InitUsers
    /\ capacityTiers = InitTiers
    /\ userTierQuotas = <<>>
    /\ events = <<>>
    /\ eventOrganizers = {}
    /\ guests = <<>>
    /\ auditLogs = <<>>
    /\ nextId = [event |-> 1, guest |-> 1]
    /\ clock = 1
    /\ req = [p \in {1} |-> Idle]
    /\ nreq = MaxUserRequests

NextAccounts ==
    \E p \in {1} :
        \/ CreateUser_Start(p)
        \/ CreateUser_GetUser(p)
        \/ CreateUser_CheckName(p)
        \/ CreateUser_Insert(p)
        \/ Reply(p)

SpecAccounts == InitAccounts /\ [][NextAccounts]_vars

\* --------------------------------------------------------------- guest list
\* storage.getGuestsByEvent
getGuestsByEvent(eventId) == {g \in DOMAIN guests : guests[g].eventId = eventId}

\* GET /api/events/:id/guests, up to the first await
ListGuests_Start(p) ==
    /\ CanStart(p)
    /\ \E u \in CheckInUsers, id \in EventIdInputs :
         req' = [req EXCEPT ![p] = [op |-> "listGuests", pc |-> "getUser",
                                    user |-> u, id |-> id, role |-> None]]
    /\ nreq' = nreq - 1
    /\ UNCHANGED <<users, capacityTiers, userTierQuotas, events, eventOrganizers,
                   guests, auditLogs, nextId, clock>>

\* storage.getUser(session.userId)
ListGuests_GetUser(p) ==
    LET r == req[p] IN
    /\ r.op = "listGuests" /\ r.pc = "getUser"
    /\ req' = [req EXCEPT ![p] =
                 IF r.user \notin DOMAIN users
                 THEN Respond(r, 401, [error |-> "unauthorized"])
                 ELSE [r EXCEPT !.pc = "getEvent", !.role = users[r.user].role]]
    /\ UNCHANGED <<users, capacityTiers, userTierQuotas, events, eventOrganizers,
                   guests, auditLogs, nextId, clock, nreq>>

\* storage.getEvent and the access test
ListGuests_GetEvent(p) ==
    LET r == req[p] IN
    /\ r.op = "listGuests" /\ r.pc = "getEvent"
    /\ req' = [req EXCEPT ![p] =
                 IF r.id \notin DOMAIN events
                 THEN Respond(r, 404, [error |-> "not_found"])
                 ELSE IF /\ ~canBypassOwnership(r.role)
                         /\ r.role = "event_manager"
                         /\ events[r.id].eventManagerId # r.user
                 THEN Respond(r, 403, [error |-> "forbidden"])
                 ELSE [r EXCEPT !.pc = "getGuestsByEvent"]]
    /\ UNCHANGED <<users, capacityTiers, userTierQuotas, events, eventOrganizers,
                   guests, auditLogs, nextId, clock, nreq>>

\* storage.getGuestsByEvent, then the response
ListGuests_GetGuests(p) ==
    LET r == req[p] IN
    /\ r.op = "listGuests" /\ r.pc = "getGuestsByEvent"
    /\ req' = [req EXCEPT ![p] = Respond(r, 200, [guests |-> getGuestsByEvent(r.id)])]
    /\ UNCHANGED <<users, capacityTiers, userTierQuotas, events, eventOrganizers,
                   guests, auditLogs, nextId, clock, nreq>>

\* one connection that reads guest lists and changes organizer assignments,
\* on the database of InitCheckIn
InitGuestList ==
    /\ users = InitUsers
    /\ capacityTiers = InitTiers
    /\ userTierQuotas = <<>>
    /\ events = [e \in {1, 2} |->
                   [eventManagerId |-> IF e = 1 THEN "m1" ELSE "m2",
                    capacityTierId |-> "t2", isActive |-> TRUE]]
    /\ eventOrganizers = {[eventId |-> 1, organizerId |-> "o1"]}
    /\ guests = (1 :> NewGuest(1, <<"A", "-", "B", "-", "C">>))
    /\ auditLogs = <<>>
    /\ nextId = [event |-> 3, guest |-> 2]
    /\ clock = 1
    /\ req = [p \in {1} |-> Idle]
    /\ nreq = MaxListRequests

NextGuestList ==
    \E p \in {1} :
        \/ ListGuests_Start(p)
        \/ ListGuests_GetUser(p)
        \/ ListGuests_GetEvent(p)
        \/ ListGuests_GetGuests(p)
        \/ AssignOrganizer_Start(p)
        \/ RemoveOrganizer_Start(p)
        \/ Organizer_GetEvent(p)
        \/ AssignOrganizer_GetUser(p)
        \/ Organizer_Write(p)
        \/ DeleteUser_Start(p)
        \/ DeleteUser_GetUser(p)
        \/ DeleteUser_Write(p)
        \/ Reply(p)

SpecGuestList == InitGuestList /\ [][NextGuestList]_vars

\* ------------------------------------------- check-in against guest deletion
\* connections at the door and at the desk that overlap: check-ins by guest
\* id and guest deletions, on the database of InitCheckIn
InitDoorRace ==
    /\ users = InitUsers
    /\ capacityTiers = InitTiers
    /\ userTierQuotas = <<>>
    /\ events = [e \in {1, 2} |->
                   [eventManagerId |-> IF e = 1 THEN "m1" ELSE "m2",
                    capacityTierId |-> "t2", isActive |-> TRUE]]
    /\ eventOrganizers = {[eventId |-> 1, organizerId |-> "o1"]}
    /\ guests = (1 :> NewGuest(1, <<"A", "-", "B", "-", "C">>))
    /\ auditLogs = <<>>
    /\ nextId = [event |-> 3, guest |-> 2]
    /\ clock = 1
    /\ req = [p \in 1..NumProcs |-> Idle]
    /\ nreq = MaxRaceRequests

NextDoorRace ==
    \E p \in 1..NumProcs :
        \/ CheckInById_Start(p)
        \/ CheckIn_GetGuest(p)
        \/ CheckIn_Access(p)
        \/ CheckIn_Duplicate(p)
        \/ CheckIn_Write(p)
        \/ CheckIn_Audit(p)
        \/ DeleteGuest_Start(p)
        \/ GuestChange_GetGuest(p)
        \/ GuestChange_GetEvent(p)
        \/ DeleteGuest_Write(p)
        \/ GuestChange_Audit(p)
        \/ Reply(p)

SpecDoorRace == InitDoorRace /\ [][NextDoorRace]_vars

\* ------------------------------------------------- event creation and update
\* one connection of requests that never overlap: manager m1 holds quota 1 on
\* tier t1 and on tier t2, quotas and tiers stay as they are, and events are
\* created and updated
InitMove ==
    /\ users = InitUsers
    /\ capacityTiers = InitTiers
    /\ userTierQuotas = <<QuotaRow("m1", "t1", 1), QuotaRow("m1", "t2", 1)>>
    /\ events = <<>>
    /\ eventOrganizers = {}
    /\ guests = <<>>
    /\ auditLogs = <<>>
    /\ nextId = [event |-> 1, guest |-> 1]
    /\ clock = 1
    /\ req = [p \in {1} |-> Idle]
    /\ nreq = MaxMoves

NextMove ==
    \E p \in {1} :
        \/ CreateEvent_Start(p, {"m1"}, {"t1", "t2"}, {TRUE})
        \/ CreateEvent_GetTier(p)
        \/ CreateEvent_GetQuotas(p)
        \/ CreateEvent_Count(p)
        \/ CreateEvent_Insert(p)
        \/ CreateEvent_Audit(p)
        \/ UpdateEvent_Start(p)
        \/ UpdateEvent_GetEvent(p)
        \/ UpdateEvent_Write(p)
        \/ Reply(p)

SpecMove == InitMove /\ [][NextMove]_vars

\* ------------------------------------------------- properties: event quota
\* the events manager m holds on tier t
EventsOn(m, t) ==
    {e \in DOMAIN events : events[e].eventManagerId = m /\ events[e].capacityTierId = t}

\* a finished POST /api/events of an event manager for an existing, active tier
QuotaGated(r) ==
    /\ r.op = "createEvent" /\ r.pc = "done"
    /\ users[r.user].role = "event_manager"
    /\ r.capacityTierId \in DOMAIN capacityTiers
    /\ capacityTiers[r.capacityTierId].isActive

\* U: the manager's events on the tier when the finished request r was served
UsedBefore(r) ==
    Cardinality(EventsOn(r.user, r.capacityTierId)) - (IF r.status = 200 THEN 1 ELSE 0)

\* the request went past the quota tests (it may still lack a name or a date)
PassedQuota(r) == r.status = 200 \/ r.body.error = "validation"

\* a step of a creation request that ends neither in the insert's follow-up
\* nor in a 200 response writes no event row and no audit entry, and the
\* follow-up of the insert always ends in a 200 response
RejectedCreateWritesNothing ==
    \A p \in Procs :
        /\ (/\ req'[p] # req[p]
            /\ req'[p].op = "createEvent"
            /\ req'[p].pc # "audit"
            /\ ~(req'[p].pc = "done" /\ req'[p].status = 200))
               => (events' = events /\ auditLogs' = auditLogs)
        /\ (req[p].op = "createEvent" /\ req[p].pc = "audit" /\ req'[p] # req[p])
               => (req'[p].pc = "done" /\ req'[p].status = 200)

\* C5 as stated: without overlap, creation is allowed iff U < Q, and with
\* U >= Q it is rejected as quota exhausted, writing no event and no audit entry.
C5_RejectedAsExhausted ==
    /\ [](\A p \in Procs :
            LET r == req[p] IN
            QuotaGated(r) =>
                LET Q == QuotaOf(r.user, r.capacityTierId)
                    U == UsedBefore(r)
                IN  /\ PassedQuota(r) <=> U < Q
                    /\ U >= Q => (r.status = 403 /\ r.body.error = "tier_quota_exhausted"))
    /\ [][RejectedCreateWritesNothing]_vars

\* C5, amended: without overlap, creation is allowed iff U < Q; with U >= Q it
\* is rejected as quota exhausted when Q >= 1 and as lacking the permission for
\* the tier when Q = 0; a rejected creation writes no event and no audit entry.
C5_QuotaGate ==
    /\ [](\A p \in Procs :
            LET r == req[p] IN
            QuotaGated(r) =>
                LET Q == QuotaOf(r.user, r.capacityTierId)
                    U == UsedBefore(r)
                IN  /\ PassedQuota(r) <=> U < Q
                    /\ r.status = 200 <=> (U < Q /\ r.valid)
                    /\ (U >= Q /\ Q >= 1)
                         => (r.status = 403 /\ r.body.error = "tier_quota_exhausted")
                    /\ Q = 0
                         => (r.status = 403 /\ r.body.error = "tier_permission_denied"))
    /\ [][RejectedCreateWritesNothing]_vars

\* C5 witness: a manager whose quota of at least one is used up is refused
C5_Witness ==
    \E p \in Procs :
        LET r == req[p] IN
        /\ QuotaGated(r)
        /\ QuotaOf(r.user, r.capacityTierId) >= 1
        /\ UsedBefore(r) = QuotaOf(r.user, r.capacityTierId)
        /\ r.status = 403 /\ r.body.error = "tier_quota_exhausted"

\* C6 as stated: however the creations of one manager for one tier interleave,
\* the manager's events on the tier exceed the quota by at most one.
C6_OverByAtMostOne ==
    \A t \in DOMAIN capacityTiers :
        Cardinality(EventsOn("m1", t)) <= QuotaOf("m1", t) + 1

\* C6, amended: with at most NumCreators creations in flight at a time, the
\* manager's events on the tier exceed a quota of at least one by at most
\* NumCreators - 1, and a quota of zero is never exceeded.
C6_OverByInFlight ==
    \A t \in DOMAIN capacityTiers :
        LET Q == QuotaOf("m1", t) IN
        Cardinality(EventsOn("m1", t))
            <= (IF Q = 0 THEN 0 ELSE Q + NumCreators - 1)

\* C6 witness: the quota of one is exceeded by NumCreators - 1
C6_Witness ==
    /\ QuotaOf("m1", "t1") = 1
    /\ Cardinality(EventsOn("m1", "t1")) = NumCreators

\* ------------------------------------------------- properties: tier quotas
\* the index of the last entry of tierQuotas that names tier t
LastEntryFor(tierQuotas, t) ==
    CHOOSE k \in DOMAIN tierQuotas :
        /\ tierQuotas[k].tierId = t
        /\ \A j \in DOMAIN tierQuotas : tierQuotas[j].tierId = t => j <= k

\* C8: after sequential setUserTierQuota calls for one (u,t) there is exactly
\* one row for (u,t) and it holds the value of the last call (never two rows,
\* never the sum); a call that repeats the stored value changes nothing.
C8_FullReplace ==
    /\ [](\A p \in Procs :
            LET r == req[p] IN
            (r.op = "setTierQuotas" /\ r.pc = "done" /\ r.status = 200) =>
                \A k \in DOMAIN r.tierQuotas :
                    LET t == r.tierQuotas[k].tierId
                        rows == QuotaRowsOf(r.id, t)
                    IN  /\ Cardinality(rows) = 1
                        /\ \A i \in rows :
                             userTierQuotas[i].quota =
                                 r.tierQuotas[LastEntryFor(r.tierQuotas, t)].quota)
    /\ [][\A p \in Procs :
            LET r == req[p] IN
            (/\ r.op = "setTierQuotas" /\ r.pc = "write"
             /\ QuotaRowsOf(r.id, r.tierQuotas[r.i].tierId) # {}
             /\ \A i \in QuotaRowsOf(r.id, r.tierQuotas[r.i].tierId) :
                    userTierQuotas[i].quota = r.tierQuotas[r.i].quota
             /\ req'[p] # r)
                => userTierQuotas' = userTierQuotas]_vars

\* C8 witness: quota 1 then quota 2 for (m1, t1) left the single row at 2
C8_Witness ==
    \E p \in Procs :
        LET r == req[p] IN
        /\ r.op = "setTierQuotas" /\ r.pc = "done" /\ r.status = 200
        /\ r.tierQuotas = <<QuotaEntry("t1", 1, TRUE), QuotaEntry("t1", 2, TRUE)>>
        /\ \E i \in QuotaRowsOf(r.id, "t1") : userTierQuotas[i].quota = 2

\* C9: in every reachable state, concurrent updates included, there is at most
\* one quota row per (manager, tier) pair.
C9_OneRowPerPair ==
    \A u \in DOMAIN users, t \in DOMAIN capacityTiers :
        Cardinality(QuotaRowsOf(u, t)) <= 1

\* --------------------------------------------- properties: guest capacity
\* the guest limit of event e, Null when its tier sets none
MaxGuestsOf(e) ==
    IF TierLimits(events[e].capacityTierId)
    THEN capacityTiers[events[e].capacityTierId].maxGuests
    ELSE Null

\* C7 as stated: however add-guest and upload-guests requests for one event
\* interleave, the guest count exceeds the tier's maxGuests by at most one.
C7_GuestsOverByAtMostOne ==
    \A e \in DOMAIN events :
        MaxGuestsOf(e) # Null => GuestCount(e) <= MaxGuestsOf(e) + 1

\* C7, amended: with at most NumProcs requests in flight at a time, the guest
\* count of an event stays within NumProcs times the tier's maxGuests, that is
\* it exceeds maxGuests by at most (NumProcs - 1) * maxGuests.
C7_GuestsOverByInFlight ==
    \A e \in DOMAIN events :
        MaxGuestsOf(e) # Null => GuestCount(e) <= NumProcs * MaxGuestsOf(e)

\* C7 witness: overlapping uploads filled event 1 to NumProcs times its limit
C7_Witness ==
    /\ MaxGuestsOf(1) # Null
    /\ GuestCount(1) = NumProcs * MaxGuestsOf(1)
    /\ \E p \in Procs : req[p].op = "uploadGuests" /\ req[p].pc = "done"
                        /\ req[p].status = 200

\* C10: an upload of K rows into an event with limit M holding C guests, with
\* K > M - C, creates exactly max(0, M - C) guests and reports truncatedCount
\* = K - created; into an event without a limit it creates all K rows
\* (uploads that ended in an internal error set aside).
C10_TruncationReported ==
    \A p \in Procs :
        LET r == req[p] IN
        (/\ r.op = "uploadGuests" /\ r.pc = "done" /\ r.status # 500
         /\ r.eventId \in DOMAIN events
         /\ events[r.eventId].eventManagerId = r.user) =>
            LET created == IF r.status = 200 THEN r.body.count ELSE 0
                C == GuestCount(r.eventId) - created
                M == MaxGuestsOf(r.eventId)
            IN  IF M # Null
                THEN r.rows > M - C =>
                        /\ created = (IF M - C > 0 THEN M - C ELSE 0)
                        /\ "truncatedCount" \in DOMAIN r.body
                        /\ r.body.truncatedCount = r.rows - created
                ELSE created = r.rows

\* C11: an upload into an event that already holds maxGuests or more guests is
\* not failed: it completes with 0 guests created (all rows dropped).
C11_FullEventImportCompletes ==
    \A p \in Procs :
        LET r == req[p] IN
        (/\ r.op = "uploadGuests" /\ r.pc = "done" /\ r.status # 500
         /\ r.eventId \in DOMAIN events
         /\ events[r.eventId].eventManagerId = r.user
         /\ MaxGuestsOf(r.eventId) # Null
         /\ r.currentGuests # Null
         /\ r.currentGuests >= MaxGuestsOf(r.eventId))
            => (r.status = 200 /\ r.body.count = 0)

\* a finished POST /api/events/:id/guests of the event's manager for an
\* existing event whose tier limits the guests
AddGuestGated(r) ==
    /\ r.op = "addGuest" /\ r.pc = "done"
    /\ r.eventId \in DOMAIN events
    /\ events[r.eventId].eventManagerId = r.user
    /\ MaxGuestsOf(r.eventId) # Null

\* the guests of event e
GuestsOf(e) == {g \in DOMAIN guests : guests[g].eventId = e}

\* C: the guests the event held when the finished add-guest request r was served
HeldBefore(r) == Cardinality(GuestsOf(r.eventId)) - (IF r.status = 200 THEN 1 ELSE 0)

\* the steps of an add-guest request: only the insert adds a guest (exactly
\* one), only the step after it adds an audit entry, and that step answers 200
AddGuestWrites ==
    \A p \in Procs :
        (req'[p] # req[p] /\ req'[p].op = "addGuest") =>
            /\ (req'[p].pc = "audit")
                 => (/\ Cardinality(DOMAIN guests') = Cardinality(DOMAIN guests) + 1
                     /\ auditLogs' = auditLogs)
            /\ (req'[p].pc = "done" /\ req'[p].status = 200)
                 => (/\ req[p].pc = "audit" /\ guests' = guests
                     /\ Len(auditLogs') = Len(auditLogs) + 1
                     /\ auditLogs'[Len(auditLogs')].action = "add_guest")
            /\ (req'[p].pc # "audit" /\ ~(req'[p].pc = "done" /\ req'[p].status = 200))
                 => (guests' = guests /\ auditLogs' = auditLogs)

BadEntry(tq) ==
    \/ ~tq.isInteger
    \/ tq.quota < 0
    \/ tq.quota > 100
    \/ tq.tierId \notin DOMAIN capacityTiers

\* C13: a bulk tier-quota update with a bad entry is rejected and none of its
\* steps writes a quota row or an audit entry: it never reaches the writes,
\* and every step of a request up to a rejection leaves both tables unchanged.
C13_BadUpdateWritesNothing ==
    /\ [](\A p \in Procs :
            LET r == req[p] IN
            (/\ r.op = "setTierQuotas"
             /\ \E k \in DOMAIN r.tierQuotas : BadEntry(r.tierQuotas[k]))
                => (/\ r.pc \in {"getUser", "getTiers", "done"}
                    /\ r.pc = "done" => r.status \in {400, 404}))
    /\ [][\A p \in Procs :
            (/\ req'[p] # req[p]
             /\ req'[p].op = "setTierQuotas"
             /\ \/ req'[p].pc \in {"getUser", "getTiers"}
                \/ (req'[p].pc = "done" /\ req'[p].status # 200))
                => (userTierQuotas' = userTierQuotas /\ auditLogs' = auditLogs)]_vars

\* C13 witness: a valid entry followed by quota 101 was rejected with no row written
C13_Witness ==
    \E p \in Procs :
        LET r == req[p] IN
        /\ r.op = "setTierQuotas" /\ r.pc = "done" /\ r.status = 400
        /\ r.tierQuotas = <<QuotaEntry("t1", 1, TRUE), QuotaEntry("t1", 101, TRUE)>>
        /\ users[r.id].role = "event_manager"
        /\ QuotaRowsOf(r.id, "t1") = {}

\* C17: no two stored guests, of the same event or of different events, hold
\* the same access code, however add-guest and upload-guests requests interleave.
C17_AccessCodesUnique ==
    \A g1 \in DOMAIN guests, g2 \in DOMAIN guests :
        g1 # g2 => guests[g1].qrCode # guests[g2].qrCode

\* C17 witness: guests of two events are stored and a request that drew a
\* stored code was refused
C17_Witness ==
    /\ \E g1 \in DOMAIN guests, g2 \in DOMAIN guests :
          guests[g1].eventId # guests[g2].eventId
    /\ \E p \in Procs : /\ req[p].op \in {"addGuest", "uploadGuests"}
                        /\ req[p].pc = "done" /\ req[p].status = 500

\* the events manager m created so far, deleted ones included, the one of the
\* finished request r set aside
CreatedBefore(r) ==
    Cardinality({i \in DOMAIN auditLogs : /\ auditLogs[i].action = "create_event"
                                          /\ auditLogs[i].userId = r.user})
        - (IF r.status = 200 THEN 1 ELSE 0)

\* C20: usage is a live count. A successful deletion removes the event from
\* the manager's events on the tier, and a creation by a manager who already
\* created Q or more events on the tier is allowed as soon as fewer than Q of
\* them still exist.
C20_DeletionFreesSlot ==
    /\ [](\A p \in Procs :
            LET r == req[p] IN
            (/\ QuotaGated(r) /\ r.valid
             /\ CreatedBefore(r) >= QuotaOf(r.user, r.capacityTierId)
             /\ UsedBefore(r) < QuotaOf(r.user, r.capacityTierId))
                => r.status = 200)
    /\ [][\A p \in Procs :
            (/\ req[p].op = "deleteEvent" /\ req[p].pc = "deleteEvent"
             /\ req'[p].pc = "done" /\ req'[p].status = 200)
                => LET m == events[req[p].id].eventManagerId
                       t == events[req[p].id].capacityTierId
                   IN  {e \in DOMAIN events' : /\ events'[e].eventManagerId = m
                                               /\ events'[e].capacityTierId = t}
                           = EventsOn(m, t) \ {req[p].id}]_vars

\* C20 witness: a manager at quota deleted an event and the next creation succeeded
C20_Witness ==
    \E p \in Procs :
        LET r == req[p] IN
        /\ QuotaGated(r) /\ r.status = 200
        /\ CreatedBefore(r) = QuotaOf(r.user, r.capacityTierId)
        /\ UsedBefore(r) = QuotaOf(r.user, r.capacityTierId) - 1

\* ------------------------------------------- properties: check-in requests
\* user u has no permitted relationship to any event: an organizer assigned
\* to none, or an event manager who owns none
NoEventRelationship(u) ==
    \/ users[u].role = "organizer" /\ getOrganizerEvents(u) = {}
    \/ /\ users[u].role = "event_manager"
       /\ \A e \in DOMAIN events : events[e].eventManagerId # u

\* a finished check-in request (an id or a non-empty code was given) of an
\* actor without a permitted relationship to any event
RefusedActorDone(r) ==
    /\ r.op = "checkIn" /\ r.pc = "done"
    /\ (r.by = "code" => r.code # <<>>)
    /\ NoEventRelationship(r.user)

\* C14: an actor with no permitted relationship to the guest's event gets the
\* same check-in response whatever the guest's check-in status and whether or
\* not the guest id / access code exists.
C14_UniformRefusal ==
    \A p \in Procs, q \in Procs :
        (RefusedActorDone(req[p]) /\ RefusedActorDone(req[q]))
            => (req[p].status = req[q].status /\ req[p].body = req[q].body)

\* ------------------------------------------- properties: door and desk (serial)
\* the guests whose access code is the typed code, upper-cased
CodeHolders(code) == {g \in DOMAIN guests : guests[g].qrCode = toUpperCase(code)}

\* the input of check-in request r names no guest of the event it is for
NamesNoGuest(r) ==
    IF r.by = "id"
    THEN r.id \notin DOMAIN guests
    ELSE \/ CodeHolders(r.code) = {}
         \/ r.eventId # NoId /\ \E g \in CodeHolders(r.code) : guests[g].eventId # r.eventId

AnsweredInvalid(r) == r.op = "checkIn" /\ r.pc = "done" /\ r.body.status = "invalid"

\* C15: a check-in by a user the role test admits, whose access code matches no
\* guest, or matches a guest of another event than the event hint, or whose
\* guest id is unknown, is answered invalid; a request answered invalid was
\* answered at its lookup or before it, and neither its start nor its answer
\* changes a guest record or appends an audit entry.
C15_InvalidWritesNothing ==
    [][\A p \in DOMAIN req :
         /\ (req[p].op = "checkIn" /\ req[p].pc = "getGuest" /\ req'[p] # req[p]
             /\ NamesNoGuest(req[p]))
            => AnsweredInvalid(req'[p])
         /\ (req[p].pc = "idle" /\ req'[p].op = "checkIn")
            => guests' = guests /\ auditLogs' = auditLogs
         /\ (AnsweredInvalid(req'[p]) /\ ~AnsweredInvalid(req[p]))
            => /\ req[p].pc \in {"idle", "getGuest"}
               /\ guests' = guests /\ auditLogs' = auditLogs]_vars

\* an event hint that is not the guest's event was answered invalid, after an
\* earlier check-in of that guest
C15_Witness ==
    \E p \in DOMAIN req :
        /\ AnsweredInvalid(req[p]) /\ req[p].by = "code" /\ req[p].eventId = 2
        /\ req[p].status = 400
        /\ CodeHolders(req[p].code) # {}
        /\ \E g \in DOMAIN guests : guests[g].isCheckedIn

\* C16: isCheckedIn never goes back: a guest that is checked in is checked in
\* after every step that keeps the guest, whatever request took the step.
C16_CheckInOneWay ==
    [][\A g \in DOMAIN guests \cap DOMAIN guests' :
         guests[g].isCheckedIn => guests'[g].isCheckedIn]_vars

\* a checked-in guest has been renamed by PATCH /api/guests/:id and is still
\* checked in
C16_Witness ==
    \E p \in DOMAIN req, g \in DOMAIN guests :
        /\ req[p].op = "updateGuest" /\ req[p].pc = "done" /\ req[p].status = 200
        /\ req[p].id = g
        /\ guests[g].name = "renamed" /\ guests[g].isCheckedIn

\* C18: the audit log only grows: every step keeps every recorded entry, in
\* its place and with its fields, also when the guest, the event or the user
\* the entry names is deleted.
C18_AuditAppendOnly ==
    [][/\ Len(auditLogs') >= Len(auditLogs)
       /\ \A i \in 1..Len(auditLogs) : auditLogs'[i] = auditLogs[i]]_vars

\* the log holds an entry whose guest and whose event are both deleted, and a
\* later entry
C18_Witness ==
    \E i \in 1..Len(auditLogs) :
        /\ auditLogs[i].guestId # NoId
        /\ auditLogs[i].guestId \notin DOMAIN guests
        /\ auditLogs[i].eventId \notin DOMAIN events
        /\ i < Len(auditLogs)

\* the audit tag of a request that changed an event or a guest ("none": the
\* request changed neither)
AuditTag(r) ==
    CASE r.op = "checkIn" /\ r.body.status = "success" -> "check_in"
      [] r.op = "addGuest" -> "add_guest"
      [] r.op = "updateGuest" -> "update_guest"
      [] r.op = "deleteGuest" -> "delete_guest"
      [] r.op = "updateEvent" /\ r.data # <<>> -> "update_event"
      [] r.op = "deleteEvent" -> "delete_event"
      [] OTHER -> None

\* C19: with one request at a time, a request that changed an event or a guest
\* and was answered with success has left the newest audit entry, with its
\* action tag and its user.
C19_ChangeIsAudited ==
    \A p \in DOMAIN req :
        (req[p].pc = "done" /\ req[p].status \in {200, 201} /\ AuditTag(req[p]) # None)
        => /\ auditLogs # <<>>
           /\ auditLogs[Len(auditLogs)].action = AuditTag(req[p])
           /\ auditLogs[Len(auditLogs)].userId = req[p].user

\* C21: the tier assignment of an event is fixed at creation: no step changes
\* capacityTierId of an event that exists before and after the step.
C21_TierAssignmentFixed ==
    [][\A e \in DOMAIN events \cap DOMAIN events' :
         events'[e].capacityTierId = events[e].capacityTierId]_vars

\* ---------------------------------------------- properties: quota summary
\* a delivered quota summary of an event manager
SummaryDone(r) ==
    /\ r.op = "quotaInfo" /\ r.pc = "done" /\ r.status = 200
    /\ r.user \in DOMAIN users /\ users[r.user].role = "event_manager"

\* the quotas stored for manager m on tier t
StoredQuotas(m, t) ==
    {userTierQuotas[i].quota : i \in {j \in DOMAIN userTierQuotas :
                                        /\ userTierQuotas[j].userId = m
                                        /\ userTierQuotas[j].capacityTierId = t}}

\* C22: with one request at a time, the quota summary of an event manager
\* lists exactly the active tiers, each with quota = the stored row's value
\* (0 without a row), used = the number of the manager's events on the tier
\* and remaining = max(0, quota - used), which is never negative.
C22_SummaryPerTier ==
    \A p \in DOMAIN req :
        SummaryDone(req[p]) =>
            LET r == req[p]
                T == r.body.tierQuotas
            IN  /\ DOMAIN T = {t \in DOMAIN capacityTiers : capacityTiers[t].isActive}
                /\ \A t \in DOMAIN T :
                     /\ IF StoredQuotas(r.user, t) = {}
                        THEN T[t].quota = 0
                        ELSE StoredQuotas(r.user, t) = {T[t].quota}
                     /\ T[t].used = Cardinality(EventsOn(r.user, t))
                     /\ T[t].remaining >= 0
                     /\ T[t].remaining = IF T[t].quota >= T[t].used
                                         THEN T[t].quota - T[t].used ELSE 0

\* a summary delivered after the quota of a tier was lowered below the number
\* of events the manager has on it
C22_Witness ==
    \E p \in DOMAIN req :
        /\ SummaryDone(req[p])
        /\ \E t \in DOMAIN req[p].body.tierQuotas :
             /\ req[p].body.tierQuotas[t].quota < req[p].body.tierQuotas[t].used
             /\ req[p].body.tierQuotas[t].remaining = 0

\* C29: the total remainingQuota of a quota summary is the sum of the
\* per-tier remaining values.
C29_TotalIsSumOfRemaining ==
    \A p \in DOMAIN req :
        SummaryDone(req[p]) =>
            req[p].body.remainingQuota = SumOf(req[p].body.tierQuotas, "remaining")

\* -------------------------------------------------- properties: tier registry
\* C23: every stored tier that is not unlimited has maxGuests set, positive
\* and at least minGuests, and minGuests is not negative.
C23_LimitedTierHasValidRange ==
    \A t \in DOMAIN capacityTiers :
        ~capacityTiers[t].isUnlimited =>
            /\ capacityTiers[t].maxGuests # Null
            /\ capacityTiers[t].maxGuests > 0
            /\ capacityTiers[t].minGuests >= 0
            /\ capacityTiers[t].maxGuests >= capacityTiers[t].minGuests

\* ----------------------------------------------------- properties: accounts
\* super_admin > admin > event_manager > organizer
RoleRank(role) ==
    CASE role = "super_admin" -> 4 [] role = "admin" -> 3
      [] role = "event_manager" -> 2 [] OTHER -> 1

\* C24: a step stores a new user only for a user-creation request whose
\* acting user has a role strictly above the new user's role.
C24_CreatesOnlyBelow ==
    [][\A u \in DOMAIN users' \ DOMAIN users :
         \E p \in DOMAIN req :
             /\ req[p].op = "createUser"
             /\ req[p].user \in DOMAIN users
             /\ RoleRank(users'[u].role) < RoleRank(users[req[p].user].role)]_vars

\* --------------------------------------------------- properties: guest list
\* C25: with one request at a time, a guest list is delivered to an organizer
\* only for an event the organizer is assigned to, and to an event manager
\* only for an event the manager owns.
C25_GuestListForOwnEvents ==
    \A p \in DOMAIN req :
        LET r == req[p] IN
        (r.op = "listGuests" /\ r.pc = "done" /\ r.status = 200) =>
            /\ users[r.user].role = "organizer"
               => [eventId |-> r.id, organizerId |-> r.user] \in eventOrganizers
            /\ users[r.user].role = "event_manager"
               => events[r.id].eventManagerId = r.user

\* ------------------------------------ properties: check-in against deletion
\* C26: a check-in whose write finds no guest row (the guest was deleted after
\* the request read it) does not go on to the check_in audit entry and the
\* success response.
C26_NoSuccessWithoutRow ==
    [][\A p \in DOMAIN req :
         (/\ req[p].op = "checkIn" /\ req[p].pc = "checkInGuest"
          /\ req'[p] # req[p]
          /\ req[p].guestId \notin DOMAIN guests)
         => req'[p].pc # "audit"]_vars

\* -------------------------------------------- properties: access code retry
\* C27: no add-guest or upload request ends in the internal error of a
\* rejected INSERT: a drawn access code that is already stored is replaced
\* by a new draw and the guests are created.
C27_CollisionIsRetried ==
    \A p \in DOMAIN req :
        (req[p].op \in {"addGuest", "uploadGuests"} /\ req[p].pc = "done")
        => req[p].status # 500

\* ------------------------------------ properties: quota under event update
\* the quota manager m holds on tier t (0 without a row)
HeldQuota(m, t) ==
    IF StoredQuotas(m, t) = {} THEN 0 ELSE CHOOSE q \in StoredQuotas(m, t) : TRUE

\* C28: with one request at a time and quotas and tiers left as they are, the
\* events of an event manager on a tier never outnumber the manager's quota
\* for the tier, whatever event creations and event updates were answered.
C28_QuotaNeverExceeded ==
    \A m \in DOMAIN users, t \in DOMAIN capacityTiers :
        users[m].role = "event_manager"
        => Cardinality(EventsOn(m, t)) <= HeldQuota(m, t)

\* ----------------------------------------- properties: check-in record fields
\* C30: in every state, for every guest, isCheckedIn is true exactly when
\* checkedInAt and checkedInBy are both set.
C30_CheckInFieldsAgree ==
    \A g \in DOMAIN guests :
        guests[g].isCheckedIn <=> (guests[g].checkedInAt # Null /\ guests[g].checkedInBy # None)

\* a checked-in guest with its time and user, renamed after the check-in, next
\* to a pending guest added later
C30_Witness ==
    \E g, h \in DOMAIN guests :
        /\ guests[g].isCheckedIn /\ guests[g].checkedInAt # Null
        /\ guests[g].checkedInBy \in DOMAIN users
        /\ guests[g].name = "renamed"
        /\ h > g /\ ~guests[h].isCheckedIn /\ guests[h].checkedInAt = Null
====
